---- MODULE Spec2Model ----
(***************************************************************************)
(* Mobile-device emulation core of minimega: the SMS PDU codec             *)
(* (package minimodem, pdu.go / message.go), the phone-number allocator    *)
(* (android.go, NumberPrefix.Next) and the GSM modem state machine         *)
(* (minimodem/modem.go).                                                   *)
(*                                                                         *)
(* Representation.  A Go string of bytes is a sequence of byte values      *)
(* 0..255; a hex string is a sequence of nibbles 0..15 (the hex digit of   *)
(* value v stands for itself, "f" is 15); a []byte is a sequence of bytes. *)
(* Go indices are 0-based; the sequence element of Go index i is i+1.      *)
(***************************************************************************)
EXTENDS Integers, Sequences, FiniteSets, TLC

VARIABLES
    \* ---- PDU codec harness (TestPdu, part_002:71-97)
    pduPc,        \* position in the pack / unpack pipeline
    text,         \* the input text (message)
    srcNum,       \* src argument of NewMessage
    dstNum,       \* dst argument of NewMessage
    msgs,         \* the segments NewMessage returned
    pdus,         \* the PDUs packed so far (hex strings)
    unpacked,     \* the results of pduSmsUnpack so far
    \* ---- number allocation (AndroidVM.Launch, part_012:223-229)
    prefix,       \* the configured NumberPrefix
    counter,      \* telephonyAllocs[prefix], the value the next Counter.Next returns
    numbers,      \* results of NumberPrefix.Next, one per launch, in order
    \* ---- GSM modem (minimodem/modem.go)
    status,       \* Modem.status
    Number,       \* Modem.Number
    Inbox,        \* Modem.Inbox
    Outbox,       \* Modem.Outbox
    posted,       \* the messages received from Modem.MessageChan, in order
    chanClosed,   \* MessageChan has been closed
    connClosed,   \* Modem.conn has been closed
    wbuf,         \* Modem.output: buf, up to the highest byte ever written
    wn,           \* Modem.output: n, the number of buffered bytes
    werr,         \* Modem.output: err, a write has failed
    guest,        \* the bytes of the latest Write the guest received on the connection
    linesRead,    \* the number of lines the guest has sent
    runPc,        \* position of Run
    runLine,      \* Run: line, after formatting
    runSubs,      \* Run: the subcommands of the line still to process
    runOut,       \* Run: out
    runFoundErr,  \* Run: founderr
    runReplies,   \* Run: the values of tmp, waserr of the line's subcommands
    runMsg,       \* parseAssignment (CMGS): msg
    tickPc,       \* position of cregmsg and of cgregmsg
    tickLocal,    \* cregmsg: creg, cgregmsg: cgreg
    pushPc,       \* position of the PushSMS call
    pushes,       \* the number of PushSMS calls made
    closePc,      \* position of the Close call
    runOld,       \* parseAssignment (CMGS): the m.Outbox that append read
    clearPc,      \* position of the ClearHistory call
    clears,       \* the number of ClearHistory calls made
    clearedAt,    \* the number of messages posted when ClearHistory last emptied Outbox
    pushFrame,    \* PushSMS: the string handed to WriteString
    pushList,     \* cliSMS (push): the segments still to push
    cliMsgs,      \* cliSMS (push): msgs, the list NewMessage returned
    networks,         \* miniwifi.Modem.networks: id -> (key -> value)
    selectedNetwork,  \* miniwifi.Modem.selectedNetwork
    scanResults,      \* miniwifi.Modem.scanResults
    netId,            \* the i of the goroutine feeding netIdChan
    wifiPc,           \* miniwifi.Modem.Run: "read", "publish", "crashed"
    wifiCmds,         \* the number of commands Run has read
    wifiCmd,          \* the command Run read last
    addedIds,         \* the ids addNetwork has returned, in order
    cOut,             \* the last write on the control stream
    mOut,             \* the last write on the monitor stream
    nameOffer,        \* the value selectNetwork is sending on NetworkNameChan
    watcherPc,        \* the network-name watcher of Launch: "recv", "lookup"
    watcherNet,       \* the watcher's local network
    accessPoints,     \* AndroidVM.accessPoints: ssid -> (vlan, bridge)
    wifiSpec,         \* the arguments of the last SetWifiSSIDs call
    connects,         \* the NetworkConnect calls made, in order
    scanPc,           \* UpdateScanResults: "idle", "append"
    scanTodo,         \* UpdateScanResults: the entries still to append
    scanDone,         \* UpdateScanResults: the number of entries appended
    wifiAPs,          \* the global collection of access points: ssid -> AP
    vmState,          \* the device's state
    vmLoc,            \* the device's currentLocation
    points,           \* updateAccessPointsVisible: the list it handed over
    gpsPc,            \* position of the location push: "args", "done"
    gpsArgs,          \* the time, lat, long and accuracy toNMEAString is called with
    nmea,             \* the sentence toNMEAString returned
    nodePc,           \* the command line of the node: "ready", "crashed"
    nodeCmds,         \* the number of sms commands the node has handled
    cliCmd,           \* the sms command handled last
    cliErr,           \* the error it returned, "" for nil
    smsHostTaps,      \* smsHostTaps: path -> (LowRange, HighRange, offset of Output)
    tapFiles,         \* the files of the node: path -> lines
    peers,            \* the other Android devices: Number, Inbox, stream to the guest
    postPc,           \* runPostman: "recv", "deliver", "exited"
    postDone,         \* the number of messages runPostman has broadcast
    \* ---- the goroutines that share wifiAPs and one device's scan results
    thrPc,            \* per goroutine: "idle", "write", "call", "range", "clear", "load", "store"
    thrPoints,        \* per goroutine: the SSIDs of its pass still to append
    thrId,            \* per goroutine: id of the loop of UpdateScanResults
    thrSlice,         \* per goroutine: the m.scanResults its append has read
    regNext,          \* the registry the map write in progress is installing
    passes,           \* the number of recomputes called so far
    mapFault,         \* the runtime has stopped the process: concurrent map access
    \* ---- GPS wandering (gps_cli.go), coordinates in millionths of a degree
    moveSpeed,            \* AndroidVM.moveSpeed
    originLocation,       \* AndroidVM.originLocation
    currentLocation,      \* AndroidVM.currentLocation
    destinationLocation,  \* AndroidVM.destinationLocation
    wanderTicks,          \* the passes of gpsMove so far
    \* ---- the end of the Wi-Fi modem (miniwifi/modem.go: Close, Run)
    wifiKill,             \* Modem.kill has been closed
    killAt,               \* the number of commands handled when it was closed, -1 before
    wifiConns,            \* controlConn and monitorConn: "open", "closed"
    \* ---- concurrent callers of PushSMS on one modem (modem.go: PushSMS)
    pshPc,                \* per caller: "idle", "store"
    pshOld,               \* per caller: the m.Inbox its append has read
    pshMsg,               \* per caller: the message of its call
    pshCalls,             \* PushSMS calls so far
    sinceClear            \* messages of the successful calls begun since the last ClearHistory

pduVars == <<pduPc, text, srcNum, dstNum, msgs, pdus, unpacked>>
numVars == <<prefix, counter, numbers>>
modemData == <<status, Number, Inbox, Outbox, posted, chanClosed, connClosed>>
writerVars == <<wbuf, wn, werr, guest>>
runVars == <<runPc, runLine, runSubs, runOut, runFoundErr, runReplies, runMsg, linesRead>>
tickVars == <<tickPc, tickLocal>>
callVars == <<pushPc, pushes, closePc>>
clearVars == <<runOld, clearPc, clears, clearedAt>>
pushLocals == <<pushFrame, pushList, cliMsgs>>
modemVars == <<modemData, writerVars, runVars, tickVars, callVars, clearVars, pushLocals>>
supVars == <<networks, selectedNetwork, netId, wifiPc, wifiCmds, wifiCmd, addedIds, cOut, mOut,
            nameOffer>>
watchVars == <<watcherPc, watcherNet, accessPoints, wifiSpec, connects>>
scanVars == <<scanResults, scanPc, scanTodo, scanDone>>
apVars == <<wifiAPs, vmState, vmLoc, points>>
wifiVars == <<supVars, watchVars, scanVars, apVars>>
gpsVars == <<gpsPc, gpsArgs, nmea>>
tapVars == <<nodePc, nodeCmds, cliCmd, cliErr, smsHostTaps, tapFiles, peers>>
postVars == <<postPc, postDone>>
raceVars == <<thrPc, thrPoints, thrId, thrSlice, regNext, passes, mapFault>>
wanderVars == <<moveSpeed, originLocation, currentLocation, destinationLocation, wanderTicks>>
wifiCloseVars == <<wifiKill, killAt, wifiConns>>
inboxVars == <<pshPc, pshOld, pshMsg, pshCalls, sinceClear>>
nodeVars == <<gpsVars, tapVars, postVars, raceVars, wanderVars, wifiCloseVars, inboxVars>>
vars == <<pduVars, numVars, modemVars, wifiVars, nodeVars>>

\* everything outside the PDU harness, the number allocator, the GSM modem,
\* the Wi-Fi side
outsidePdu == <<numVars, modemVars, wifiVars, nodeVars>>
outsideNum == <<pduVars, modemVars, wifiVars, nodeVars>>
outsideModem == <<pduVars, numVars, wifiVars, nodeVars>>
outsideWifi == <<pduVars, numVars, modemVars, nodeVars>>
outsideNode == <<pduVars, numVars, modemVars, wifiVars>>

(***************************************************************************)
(*                       Bounds of the model                               *)
(***************************************************************************)
\* longest input text handed to NewMessage
MaxTextLen == 320

\* number of devices launched on one prefix and counter
MaxLaunches == 104

(***************************************************************************)
(*                    Byte and hex-string helpers                          *)
(***************************************************************************)
\* byte(x): conversion of an int to a Go byte
Byte(x) == x % 256

\* b << k on a byte
Shl(b, k) == (b * (2 ^ k)) % 256

\* b >> k on a byte
Shr(b, k) == b \div (2 ^ k)

\* a prefix s[:n] and a suffix s[n:] of a Go slice (callers check the range)
Take(s, n) == SubSeq(s, 1, n)
Drop(s, n) == SubSeq(s, n + 1, Len(s))

\* n zero bytes: make([]byte, n), or a string of n "\x00"
Zeros(n) == [i \in 1..n |-> 0]

\* hex.EncodeToString: two nibbles per byte, high nibble first
hexEncode(b) ==
    [i \in 1..(2 * Len(b)) |->
        IF i % 2 = 1 THEN b[(i + 1) \div 2] \div 16 ELSE b[i \div 2] % 16]

\* hex.DecodeString with the error ignored: the complete pairs are decoded,
\* a trailing odd nibble is dropped
hexDecode(h) ==
    [i \in 1..(Len(h) \div 2) |-> 16 * h[2 * i - 1] + h[2 * i]]

\* strconv.Itoa of a non-negative int, as a sequence of digit characters
RECURSIVE Itoa(_)
Itoa(n) == IF n < 10 THEN <<n>> ELSE Append(Itoa(n \div 10), n % 10)

\* strconv.Atoi on a string of hex characters: the value of a non-empty
\* all-digit string, an error (-1) otherwise
RECURSIVE AtoiDigits(_)
AtoiDigits(d) ==
    IF Len(d) = 0 THEN 0 ELSE 10 * AtoiDigits(Take(d, Len(d) - 1)) + d[Len(d)]

Atoi(d) ==
    IF Len(d) = 0 \/ (\E i \in 1..Len(d) : d[i] > 9) THEN -1 ELSE AtoiDigits(d)

btoi(b) == IF b THEN 1 ELSE 0

(***************************************************************************)
(*                    Message (message.go)                                 *)
(***************************************************************************)
\* the zero Message{} (Time is wall-clock and not modelled)
ZeroMessage ==
    [Src |-> 0, Dst |-> 0, Message |-> <<>>, RefLen |-> 0, RefId |-> <<0, 0>>,
     TotParts |-> 0, PartId |-> 0]

\* const csmsSize
csmsSize == 2

\* the segment size NewMessage cuts a long text into
SegmentSize == 152

\* the length from which NewMessage splits a text
SingleLimit == 160

\* the reference ids randomRefId may draw (two random bytes, or 0,0 when
\* rand.Read fails)
randomRefId == {<<0, 0>>, <<171, 8>>, <<255, 255>>}

\* the loop of NewMessage: cut msg into parts of 152 characters
RECURSIVE NewMessageLoop(_, _, _, _, _, _)
NewMessageLoop(src, dst, msg, refId, totParts, i) ==
    IF Len(msg) = 0 THEN <<>>
    ELSE LET msgPart == IF Len(msg) >= SegmentSize THEN Take(msg, SegmentSize) ELSE msg
             rest    == IF Len(msg) >= SegmentSize THEN Drop(msg, SegmentSize) ELSE <<>>
             message == [Src |-> src, Dst |-> dst, Message |-> msgPart,
                         RefLen |-> csmsSize, RefId |-> refId,
                         TotParts |-> totParts, PartId |-> i + 1]
         IN <<message>> \o NewMessageLoop(src, dst, rest, refId, totParts, i + 1)

\* NewMessage with totParts always rounded up (the test of the remainder lost)
NewMessageRoundsUp(src, dst, msg, refId) ==
    IF Len(msg) < SingleLimit
    THEN <<[ZeroMessage EXCEPT !.Src = src, !.Dst = dst, !.Message = msg]>>
    ELSE NewMessageLoop(src, dst, msg, refId, (Len(msg) \div SegmentSize) + 1, 0)

NewMessage(src, dst, msg, refId) ==
    IF Len(msg) < SingleLimit
    THEN <<[ZeroMessage EXCEPT !.Src = src, !.Dst = dst, !.Message = msg]>>
    ELSE LET totParts == (Len(msg) \div SegmentSize)
                         + (IF Len(msg) % SegmentSize # 0 THEN 1 ELSE 0)
         IN NewMessageLoop(src, dst, msg, refId, totParts, 0)

(***************************************************************************)
(*                    SMS PDU codec (pdu.go)                               *)
(***************************************************************************)
\* the longest user data PduUserDataEncode accepts, in septets
MaxSeptets == 160

\* results of the codec functions: a value, a returned error, or a run-time
\* panic (slice or index out of range)
Ok(v)  == [kind |-> "ok", val |-> v]
Err    == [kind |-> "err"]
Panic  == [kind |-> "panic"]

\* swizzle: pad an odd digit string with "F", swap the digits of each pair
\* and hex-decode the result
swizzle(pn) ==
    LET p == IF Len(pn) % 2 = 1 THEN Append(pn, 15) ELSE pn
        temp_str == [i \in 1..Len(p) |-> IF i % 2 = 1 THEN p[i + 1] ELSE p[i - 1]]
    IN hexDecode(temp_str)

\* unswizzle: hex-encode, swap the digits of each pair, strip one trailing "f"
\* (pn[len(pn)-1] panics on the empty string)
unswizzle(s) ==
    LET a  == hexEncode(s)
        pn == [i \in 1..Len(a) |-> IF i % 2 = 1 THEN a[i + 1] ELSE a[i - 1]]
    IN IF Len(pn) = 0 THEN Panic
       ELSE IF pn[Len(pn)] = 15 THEN Ok(Take(pn, Len(pn) - 1)) ELSE Ok(pn)

\* the User Data Header PduUserDataEncode builds
UdhHeader(msg) ==
    IF msg.RefLen = 1
    THEN <<5, 0, 3, msg.RefId[1], Byte(msg.TotParts), Byte(msg.PartId)>>
    ELSE <<6, 8, 4, msg.RefId[1], msg.RefId[2], Byte(msg.TotParts), Byte(msg.PartId)>>

\* what iteration idx of the septet-packing loop of PduUserDataEncode adds to
\* ret[r]: "ret[prevrow] += lsb; ret[row] += msb"
EncodeAdds(s, idx, r) ==
    IF idx < 0 \/ idx >= Len(s) THEN 0
    ELSE LET char    == s[idx + 1]
             row     == idx - (idx \div 8)
             prevrow == row - 1 + btoi(idx % 8 = 0)
             lsb     == Shl(char, 8 - (idx % 8))
             msb     == Shr(char, idx % 8)
         IN (IF prevrow = r THEN lsb ELSE 0) + (IF row = r THEN msb ELSE 0)

\* ret after the loop "for idx, char := range []byte(s)": only the
\* iterations r + r/7 - 1 .. r + r/7 + 2 have row or prevrow equal to r
EncodeLoop(s, length) ==
    [r1 \in 1..length |->
        LET r == r1 - 1
            k == r + (r \div 7)
        IN Byte(EncodeAdds(s, k - 1, r) + EncodeAdds(s, k, r)
                + EncodeAdds(s, k + 1, r) + EncodeAdds(s, k + 2, r))]

PduUserDataEncode(msg) ==
    IF msg.RefLen > 0 /\ msg.RefLen # 1 /\ msg.RefLen # 2 THEN Err
    ELSE
    LET header == IF msg.RefLen > 0 THEN UdhHeader(msg) ELSE <<>>
        s      == IF msg.RefLen = 1 THEN Zeros(7) \o msg.Message
                  ELSE IF msg.RefLen = 2 THEN Zeros(8) \o msg.Message
                  ELSE msg.Message
    IN IF Len(s) > MaxSeptets THEN Err
       ELSE LET length   == ((Len(s) * 7 + 7) \div 8) + 1
                ret      == EncodeLoop(s, length)
                userData == Take(ret, length - 1)
            IN IF msg.RefLen > 0
               THEN Ok(header \o Drop(userData, Len(header)))
               ELSE Ok(userData)

\* the UsrDatLen byte pduSmsPack writes
PackUsrDatLen(msg) ==
    IF msg.RefLen = 0 THEN Byte(Len(msg.Message))
    ELSE IF msg.RefLen = 1 THEN Byte(Len(msg.Message) + 7)
    ELSE IF msg.RefLen = 2 THEN Byte(Len(msg.Message) + 8)
    ELSE 0

pduSmsPack(msg) ==
    LET SMSCLen   == 0
        PDUType   == IF msg.RefLen # 0 THEN 64 ELSE 0
        SenAdrLen == Byte(Len(Itoa(msg.Src)))
        SenAdrTyp == 129
        SenderNum == swizzle(Itoa(msg.Src))
        ProtoIden == 0
        DataEnc   == 0
        Timestamp == Zeros(7)
        UsrDatLen == PackUsrDatLen(msg)
        ud        == PduUserDataEncode(msg)
    IN IF ud.kind # "ok" THEN ud
       ELSE Ok(hexEncode(<<SMSCLen, PDUType, SenAdrLen, SenAdrTyp>> \o SenderNum
                         \o <<ProtoIden, DataEnc>> \o Timestamp \o <<UsrDatLen>>
                         \o ud.val))

\* what iteration i of the septet-unpacking loop of PduUserDataDecode adds to
\* s[j]: "s[idx] += lsb; s[idx+1] += msb"
DecodeAdds(b, i, j) ==
    IF i < 0 \/ i >= Len(b) THEN 0
    ELSE LET idx == i + (i \div 7)
             lsb == Shl(b[i + 1], i % 7) % 128
             msb == Shr(b[i + 1], 7 - (i % 7))
         IN (IF idx = j THEN lsb ELSE 0) + (IF idx + 1 = j THEN msb ELSE 0)

\* s after the loop "for i := 0; i < len(b); i++": only the iterations
\* j - j/8 - 2 .. j - j/8 + 1 have idx or idx+1 equal to j
DecodeLoop(b, length) ==
    [j1 \in 1..length |->
        LET j == j1 - 1
            m == j - (j \div 8)
        IN Byte(DecodeAdds(b, m - 2, j) + DecodeAdds(b, m - 1, j)
                + DecodeAdds(b, m, j) + DecodeAdds(b, m + 1, j))]

\* whether PduUserDataDecode takes the user data to start with a header
HasHeader(b) == b[1] <= 6

\* the concatenation fields PduUserDataDecode reads from the header, or
\* Panic when an index is out of range
DecodeHeader(b) ==
    IF Len(b) < 2 THEN Panic
    ELSE IF b[2] = 0
         THEN IF Len(b) < 6 THEN Panic
              ELSE Ok([ZeroMessage EXCEPT !.RefLen = 1, !.RefId = <<b[4], 0>>,
                                          !.TotParts = b[5], !.PartId = b[6]])
    ELSE IF b[2] = 8
         THEN IF Len(b) < 7 THEN Panic
              ELSE Ok([ZeroMessage EXCEPT !.RefLen = 2, !.RefId = <<b[4], b[5]>>,
                                          !.TotParts = b[6], !.PartId = b[7]])
    ELSE Ok(ZeroMessage)

\* the text PduUserDataDecode cuts out of the unpacked septets s
DecodeText(usrDatLen, s, hdr, UDHLen) ==
    LET t == IF hdr THEN Drop(s, UDHLen + 2) ELSE s
    IN IF Len(t) > usrDatLen THEN Take(t, usrDatLen) ELSE t

PduUserDataDecode(usrDatLen, b) ==
    IF Len(b) = 0 THEN Ok(ZeroMessage)
    ELSE
    LET hdr    == HasHeader(b)
        UDHLen == b[1]
        h      == IF hdr THEN DecodeHeader(b) ELSE Ok(ZeroMessage)
    IN IF h.kind # "ok" THEN h
       ELSE IF hdr /\ UDHLen + 1 > Len(b) THEN Panic
       ELSE
       LET bb     == IF hdr THEN Zeros(UDHLen + 1) \o Drop(b, UDHLen + 1) ELSE b
           length == ((Len(bb) * 8) \div 7) + 1
           s      == Take(DecodeLoop(bb, length), length - 1)
       IN IF hdr /\ UDHLen + 2 > Len(s) THEN Panic
          ELSE Ok([h.val EXCEPT !.Message = DecodeText(usrDatLen, s, hdr, UDHLen)])

\* pdu[a:b] of a hex string is in range
InRange(pdu, a, b) == a <= b /\ b <= Len(pdu)

\* pdu[a:b]
Slice(pdu, a, b) == SubSeq(pdu, a + 1, b)

\* the byte hex-decoded from pdu[o:o+2]
ByteAt(pdu, o) == 16 * pdu[o + 1] + pdu[o + 2]

\* the two branches of the address assignment exchanged
AddressFieldSwapped(PDUType) ==
    IF PDUType % 4 = 0 THEN "Dst" ELSE IF PDUType % 4 = 1 THEN "Src" ELSE "none"

\* which of Src and Dst pduSmsUnpack sets from the address of the PDU
AddressField(PDUType) ==
    IF PDUType % 4 = 0 THEN "Src" ELSE IF PDUType % 4 = 1 THEN "Dst" ELSE "none"

pduSmsUnpack(pdu) ==
    IF ~InRange(pdu, 0, 2) THEN Panic
    ELSE
    LET SMSCLen == ByteAt(pdu, 0)
    IN IF SMSCLen > 0 /\ ~(InRange(pdu, 2, 4) /\ InRange(pdu, 4, 2 + 2 * SMSCLen))
       THEN Panic
       ELSE
       LET o1 == 2 + SMSCLen
       IN IF ~InRange(pdu, o1, o1 + 2) THEN Panic
          ELSE
          LET PDUType == ByteAt(pdu, o1)
              submit  == PDUType % 2 # 0
              o2      == o1 + 2 + (IF submit THEN 2 ELSE 0)
          IN IF ~InRange(pdu, o2, o2 + 4) THEN Panic
             ELSE
             LET SenAdrLen == ByteAt(pdu, o2)
                 sender_address_length ==
                     IF SenAdrLen % 2 = 1 THEN SenAdrLen + 1 ELSE SenAdrLen
                 o3 == o2 + 4 + sender_address_length
             IN IF ~InRange(pdu, o3, o3 + 4) THEN Panic
                ELSE
                LET SenderNum == hexDecode(Slice(pdu, o2 + 4, o3))
                    deliver   == PDUType % 4 = 0
                    o4 == o3 + 4 + (IF deliver THEN 14 ELSE 0)
                    validity  == (PDUType \div 16) % 2 # 0
                    o5 == o4 + (IF validity THEN 2 ELSE 0)
                IN IF ~InRange(pdu, o5, o5 + 2) THEN Panic
                   ELSE
                   LET UsrDatLen == ByteAt(pdu, o5)
                       UserData  == hexDecode(Drop(pdu, o5 + 2))
                       m   == PduUserDataDecode(UsrDatLen, UserData)
                       un  == unswizzle(SenderNum)
                   IN IF m.kind # "ok" THEN m
                      ELSE IF un.kind # "ok" THEN un
                      ELSE LET num == Atoi(un.val)
                           IN IF num < 0 THEN Err
                              ELSE IF AddressField(PDUType) = "Src"
                                   THEN Ok([m.val EXCEPT !.Src = num])
                              ELSE IF AddressField(PDUType) = "Dst"
                                   THEN Ok([m.val EXCEPT !.Dst = num])
                              ELSE m

(***************************************************************************)
(*      Number allocation (android.go): NumberPrefix.Next, Counter         *)
(***************************************************************************)
\* the digits of a phone number
NumberDigits == 10

\* result of NumberPrefix.Next when no number is left
OutOfNumbers == [kind |-> "err"]

\* the decimal length the loops of NumberPrefix.Next compute: the number of
\* digits of a positive i, 0 for i <= 0
RECURSIVE DigitLen(_)
DigitLen(i) == IF i > 0 THEN 1 + DigitLen(i \div 10) ELSE 0

\* prefixLen of NumberPrefix.Next
PrefixLen(n) == IF n = -1 THEN 0 ELSE DigitLen(n)

\* idLen of NumberPrefix.Next
IdLen(id) == IF id = 0 THEN 1 ELSE DigitLen(id)

\* res after the loop "for i := 0; i < 10-prefixLen; i++ { res *= 10 }"
RECURSIVE TimesTen(_, _)
TimesTen(res, k) == IF k <= 0 THEN res ELSE TimesTen(res * 10, k - 1)

\* the comparison off by one: a counter value that exactly fills the number
\* is refused
NoNumbersLeftOffByOne(n, id) == IdLen(id) + PrefixLen(n) >= NumberDigits

\* whether NumberPrefix.Next refuses the id
NoNumbersLeft(n, id) == IdLen(id) + PrefixLen(n) > NumberDigits

\* NumberPrefix.Next without the early return for a prefix of 10 digits
NumberPrefixNextNoExact(n, id) ==
    IF NoNumbersLeft(n, id) THEN OutOfNumbers
    ELSE Ok(TimesTen(IF n = -1 THEN 0 ELSE n, NumberDigits - PrefixLen(n)) + id)

\* NumberPrefix.Next, given the id that c.Next() returned
NumberPrefixNext(n, id) ==
    IF PrefixLen(n) = NumberDigits THEN Ok(n)
    ELSE IF NoNumbersLeft(n, id) THEN OutOfNumbers
    ELSE Ok(TimesTen(IF n = -1 THEN 0 ELSE n, NumberDigits - PrefixLen(n)) + id)

(***************************************************************************)
(*      Specification of the PDU codec: TestPdu's pack / unpack pipeline   *)
(***************************************************************************)
\* first characters of the input texts: a letter, two control characters
FirstChars == {116, 5, 0}

\* the characters the rest of a text alternates between
FillPairs == {<<97, 98>>, <<98, 97>>}

\* the text of length n that starts with c0 and goes on with fill[1], fill[2],
\* fill[1], ...
TextOf(n, c0, fill) ==
    [i \in 1..n |-> IF i = 1 THEN c0 ELSE fill[(i % 2) + 1]]

Texts == {TextOf(n, c0, fill) : n \in 0..MaxTextLen, c0 \in FirstChars, fill \in FillPairs}

\* const src, dst of the test
TestSrc == 1234567
TestDst == 7654321

\* the two unsolicited-event goroutines
Tickers == {"creg", "cgreg"}

\* NewModem: the zero Status with regformat 2, regstatus 0
NewStatus ==
    [regstatus |-> 0, regformat |-> 2, pin |-> 0, creg |-> 0, cgreg |-> 0, cmgf |-> 0, mr |-> 0]

\* no modem: the state NewModem would leave, with Run never started
ModemIdle ==
    /\ status = NewStatus
    /\ Number = 0
    /\ Inbox = <<>>
    /\ Outbox = <<>>
    /\ posted = <<>>
    /\ chanClosed = FALSE
    /\ connClosed = FALSE
    /\ wbuf = ""
    /\ wn = 0
    /\ werr = FALSE
    /\ guest = ""
    /\ linesRead = 0
    /\ runPc = "none"
    /\ runLine = ""
    /\ runSubs = <<>>
    /\ runOut = ""
    /\ runFoundErr = FALSE
    /\ runReplies = <<>>
    /\ runMsg = ZeroMessage
    /\ tickPc = [t \in Tickers |-> "none"]
    /\ tickLocal = [t \in Tickers |-> 0]
    /\ pushPc = "none"
    /\ pushes = 0
    /\ closePc = "none"
    /\ runOld = <<>>
    /\ clearPc = "none"
    /\ clears = 0
    /\ clearedAt = 0
    /\ pushFrame = ""
    /\ pushList = <<>>
    /\ cliMsgs = <<>>

\* no Wi-Fi modem, no access points
WifiIdle ==
    /\ networks = <<>>
    /\ selectedNetwork = -1
    /\ scanResults = <<>>
    /\ netId = 0
    /\ wifiPc = "none"
    /\ wifiCmds = 0
    /\ wifiCmd = ""
    /\ addedIds = <<>>
    /\ cOut = ""
    /\ mOut = ""
    /\ nameOffer = ""
    /\ watcherPc = "none"
    /\ watcherNet = ""
    /\ accessPoints = <<>>
    /\ wifiSpec = <<>>
    /\ connects = <<>>
    /\ scanPc = "idle"
    /\ scanTodo = <<>>
    /\ scanDone = 0
    /\ wifiAPs = <<>>
    /\ vmState = "BUILDING"
    /\ vmLoc = 0
    /\ points = <<>>

\* no location push in progress
GpsIdle ==
    /\ gpsPc = "none"
    /\ gpsArgs = <<>>
    /\ nmea = ""

\* no sms command line, no taps, no other devices
TapIdle ==
    /\ nodePc = "none"
    /\ nodeCmds = 0
    /\ cliCmd = <<>>
    /\ cliErr = ""
    /\ smsHostTaps = <<>>
    /\ tapFiles = <<>>
    /\ peers = <<>>

\* no postman: whoever holds the other end of MessageChan always receives
PostIdle ==
    /\ postPc = "none"
    /\ postDone = 0

\* the goroutines of the node that touch the access points
Threads == {"cli", "wander"}

\* no goroutine is at the access points
RaceIdle ==
    /\ thrPc = [t \in Threads |-> "idle"]
    /\ thrPoints = [t \in Threads |-> <<>>]
    /\ thrId = [t \in Threads |-> 0]
    /\ thrSlice = [t \in Threads |-> <<>>]
    /\ regNext = <<>>
    /\ passes = 0
    /\ mapFault = FALSE

\* the zero location{}
ZeroLocation == [lat |-> 0, long |-> 0]

\* a device that was never told to wander and never given a position
WanderIdle ==
    /\ moveSpeed = 0
    /\ originLocation = ZeroLocation
    /\ currentLocation = ZeroLocation
    /\ destinationLocation = ZeroLocation
    /\ wanderTicks = 0

\* the Wi-Fi modem has not been closed
WifiOpen ==
    /\ wifiKill = FALSE
    /\ killAt = -1
    /\ wifiConns = "open"

\* nothing node-wide in progress
\* the callers of PushSMS: the "sms push" / "sms deliver" of the command line
\* and the "sms deliver-raw" issued for another device's postman
Pushers == {"cli", "mesh"}

PushersIdle ==
    /\ pshPc = [p \in Pushers |-> "idle"]
    /\ pshOld = [p \in Pushers |-> <<>>]
    /\ pshMsg = [p \in Pushers |-> ZeroMessage]
    /\ pshCalls = 0
    /\ sinceClear = {}

NodeIdle == GpsIdle /\ TapIdle /\ PostIdle /\ RaceIdle /\ WanderIdle /\ WifiOpen /\ PushersIdle

NumIdle ==
    /\ prefix = -1
    /\ counter = 0
    /\ numbers = <<>>

PduIdle ==
    /\ pduPc = "idle"
    /\ text = <<>>
    /\ srcNum = 0
    /\ dstNum = 0
    /\ msgs = <<>>
    /\ pdus = <<>>
    /\ unpacked = <<>>

PduInit ==
    /\ pduPc = "new"
    /\ text \in Texts
    /\ srcNum \in {TestSrc, 15}
    /\ dstNum = TestDst
    /\ msgs = <<>>
    /\ pdus = <<>>
    /\ unpacked = <<>>
    /\ NumIdle
    /\ ModemIdle
    /\ WifiIdle
    /\ NodeIdle

\* msgs := NewMessage(src, dst, message)
PduNewMessage ==
    /\ pduPc = "new"
    /\ \E refId \in (IF Len(text) < SingleLimit THEN {<<0, 0>>} ELSE randomRefId) :
           msgs' = NewMessage(srcNum, dstNum, text, refId)
    /\ pduPc' = "pack"
    /\ UNCHANGED <<text, srcNum, dstNum, pdus, unpacked, outsidePdu>>

\* one iteration of "for _, m := range msgs { pdu, err := pduSmsPack(m) ... }"
PduPack ==
    /\ pduPc = "pack"
    /\ Len(pdus) < Len(msgs)
    /\ LET r == pduSmsPack(msgs[Len(pdus) + 1])
       IN IF r.kind = "ok"
          THEN /\ pdus' = Append(pdus, r.val)
               /\ pduPc' = IF Len(pdus) + 1 = Len(msgs) THEN "unpack" ELSE "pack"
          ELSE /\ pdus' = pdus
               /\ pduPc' = "packfail"
    /\ UNCHANGED <<text, srcNum, dstNum, msgs, unpacked, outsidePdu>>

\* one iteration of "for _, pdu := range pdus { msg, err := pduSmsUnpack(pdu) ... }"
PduUnpack ==
    /\ pduPc = "unpack"
    /\ Len(unpacked) < Len(pdus)
    /\ LET r == pduSmsUnpack(pdus[Len(unpacked) + 1])
       IN /\ unpacked' = Append(unpacked, r)
          /\ pduPc' = IF r.kind # "ok" THEN "unpackfail"
                      ELSE IF Len(unpacked) + 1 = Len(pdus) THEN "done" ELSE "unpack"
    /\ UNCHANGED <<text, srcNum, dstNum, msgs, pdus, outsidePdu>>

PduNext == PduNewMessage \/ PduPack \/ PduUnpack

SpecPdu == PduInit /\ [][PduNext]_vars

\* resultMessage of TestPdu: the unpacked texts concatenated in order
RECURSIVE ConcatTexts(_)
ConcatTexts(rs) ==
    IF Len(rs) = 0 THEN <<>> ELSE rs[1].val.Message \o ConcatTexts(Tail(rs))

(***************************************************************************)
(*      Specification of the number allocation: devices launched on one    *)
(*      prefix with a fresh counter                                        *)
(***************************************************************************)
\* the configured prefixes: none, 8 digits, 9 digits, a full number
Prefixes == {-1, 12345678, 123456789, 1234567890}

NumInit ==
    /\ prefix \in Prefixes
    /\ counter = 0
    /\ numbers = <<>>
    /\ PduIdle
    /\ ModemIdle
    /\ WifiIdle
    /\ NodeIdle

\* Counter.Next: the current value, the counter advanced by one
CounterNext(c) == [id |-> c, c |-> c + 1]

\* AndroidVM.Launch: vm.Number, err = NumberPrefix(prefix).Next(telephonyAllocs[prefix])
NumLaunch ==
    /\ pduPc = "idle"
    /\ Len(numbers) < MaxLaunches
    /\ LET n == CounterNext(counter)
       IN /\ numbers' = Append(numbers, NumberPrefixNext(prefix, n.id))
          /\ counter' = n.c
    /\ UNCHANGED <<prefix, outsideNum>>

NumNext == NumLaunch

SpecNum == NumInit /\ [][NumNext]_vars

(***************************************************************************)
(*      GSM modem (minimodem/modem.go): strings                            *)
(*                                                                         *)
(* Command lines and replies are strings, taken character by character.    *)
(* Two bytes have no TLA+ escape and are written with stand-ins: ctrl-z    *)
(* (0x1A, the end of a PDU typed after the CMGS prompt) is "\f", and a     *)
(* zero byte of the output buffer is "@".                                  *)
(***************************************************************************)
CtrlZ == "\f"
NulByte == "@"

\* s[i] of a Go string, i 0-based
CharAt(s, i) == SubSeq(s, i + 1, i + 1)

\* s[:n] and s[n:] of a Go string
StrTake(s, n) == SubSeq(s, 1, n)
StrDrop(s, n) == SubSeq(s, n + 1, Len(s))

\* strings.Index: the 0-based position of the first sub in s, -1 if none
StrIndex(s, sub) ==
    LET at == {i \in 0..(Len(s) - Len(sub)) : SubSeq(s, i + 1, i + Len(sub)) = sub}
    IN IF at = {} THEN -1 ELSE CHOOSE i \in at : \A j \in at : i <= j

\* strings.Replace(s, old, new, 1)
ReplaceFirst(s, old, new) ==
    LET i == StrIndex(s, old)
    IN IF i < 0 THEN s ELSE StrTake(s, i) \o new \o StrDrop(s, i + Len(old))

\* strings.Split(s, sep) for a separator of one character
RECURSIVE StrSplit(_, _)
StrSplit(s, sep) ==
    LET i == StrIndex(s, sep)
    IN IF i < 0 THEN <<s>> ELSE <<StrTake(s, i)>> \o StrSplit(StrDrop(s, i + 1), sep)

\* strings.HasSuffix
HasSuffix(s, suf) ==
    Len(s) >= Len(suf) /\ SubSeq(s, Len(s) - Len(suf) + 1, Len(s)) = suf

Digits == "0123456789"

IsDigit(c) == \E d \in 0..9 : CharAt(Digits, d) = c

DigitVal(c) == CHOOSE d \in 0..9 : CharAt(Digits, d) = c

\* strconv.Itoa of a non-negative int, as a string
RECURSIVE StrItoa(_)
StrItoa(n) ==
    IF n < 10 THEN CharAt(Digits, n) ELSE StrItoa(n \div 10) \o CharAt(Digits, n % 10)

\* the value of a string of digits
RECURSIVE StrDigitsVal(_)
StrDigitsVal(s) ==
    IF Len(s) = 0 THEN 0
    ELSE 10 * StrDigitsVal(StrTake(s, Len(s) - 1)) + DigitVal(CharAt(s, Len(s) - 1))

\* "x, _ = strconv.Atoi(s)": the value of an unsigned decimal string, 0 when
\* Atoi returns an error
StrAtoi(s) ==
    IF Len(s) > 0 /\ (\A i \in 0..(Len(s) - 1) : IsDigit(CharAt(s, i)))
    THEN StrDigitsVal(s) ELSE 0

HexDigits == "0123456789abcdef"

\* a hex string as the sequence of its nibbles, and back
HexToNibbles(s) ==
    [i \in 1..Len(s) |-> CHOOSE v \in 0..15 : CharAt(HexDigits, v) = SubSeq(s, i, i)]

RECURSIVE NibblesToHex(_)
NibblesToHex(h) ==
    IF Len(h) = 0 THEN ""
    ELSE IF Len(h) = 1 THEN CharAt(HexDigits, h[1])
    ELSE LET m == Len(h) \div 2
         IN NibblesToHex(SubSeq(h, 1, m)) \o NibblesToHex(SubSeq(h, m + 1, Len(h)))

\* regexp.MatchString(pattern, s) for the pattern  .*\+.+<last>.*  : a "+",
\* one or more characters other than newline, then the character last
MatchPlusThen(s, last) ==
    \E i \in 0..(Len(s) - 1), j \in 0..(Len(s) - 1) :
        /\ CharAt(s, i) = "+"
        /\ CharAt(s, j) = last
        /\ j >= i + 2
        /\ \A k \in (i + 1)..(j - 1) : CharAt(s, k) # "\n"

\* const querypattern, assignpattern
MatchQuery(s) == MatchPlusThen(s, "?")
MatchAssign(s) == MatchPlusThen(s, "=")

\* const msgOK
msgOK == "\r\nOK\r\n"

\* var crsmTab, as a sequence of <<key, response>>
crsmTab == <<
    <<"176,12258,0,0,10", "+CRSM: 144,0,98101430121181157002">>,
    <<"176,28433,0,0,1", "+CRSM: 144,0,55">>,
    <<"176,28435,0,0,1", "+CRSM: 144,0,55">>,
    <<"176,28472,0,0,15", "+CRSM: 144,0,ff30ffff3c003c03000c0000f03f00">>,
    <<"176,28438,0,0,2", "+CRSM: 144,0,0233">>,
    <<"176,28436,0,0,20", "+CRSM: 144,0,416e64726f6964ffffffffffffffffffffffffff">>,
    <<"178,28615,1,4,32", "+CRSM: 144,0,566f6963656d61696cffffffffffffffffff07915155125740f9ffffffffffff">>,
    <<"178,28480,1,4,32", "+CRSM: 144,0,ffffffffffffffffffffffffffffffffffff07815155255155f4ffffffffffff">>,
    <<"178,28617,1,4,4", "+CRSM: 144,0,01000000">>,
    <<"176,28589,0,0,4", "+CRSM: 144,0,00000003">>,
    <<"178,28618,1,4,5", "+CRSM: 144,0,0000000000">>,
    <<"178,28613,1,4,24", "+CRSM: 144,0,43058441aa890affffffffffffffffffffffffffffffffff">>,
    <<"192,28589,0,0,15", "+CRSM: 144,0,000000046fad04000aa0aa01020000">>,
    <<"192,28618,0,0,15", "+CRSM: 144,0,0000000a6fca040011a0aa01020105">>,
    <<"192,28433,0,0,15", "+CRSM: 144,0,000000016f11040011a0aa01020000">>,
    <<"192,28435,0,0,15", "+CRSM: 144,0,000000016f13040011a0aa01020000">>,
    <<"192,28486,0,0,15", "+CRSM: 148,4">>,
    <<"192,28621,0,0,15", "+CRSM: 148,4">>,
    <<"192,28613,0,0,15", "+CRSM: 144,0,000000f06fc504000aa0aa01020118">>,
    <<"192,28472,0,0,15", "+CRSM: 144,0,0000000f6f3804001aa0aa01020000">>,
    <<"192,28438,0,0,15", "+CRSM: 144,0,000000026f1604001aa0aa01020000">>,
    <<"192,28436,0,0,15", "+CRSM: 144,0,000000146f1404001aa0aa01020000">>,
    <<"192,28615,0,0,15", "+CRSM: 144,0,000000406fc7040011a0aa01020120">> >>

\* crsmTab[key]: the response, "" for a key the map does not hold
CrsmLookup(key) ==
    IF \E i \in 1..Len(crsmTab) : crsmTab[i][1] = key
    THEN (crsmTab[CHOOSE i \in 1..Len(crsmTab) : crsmTab[i][1] = key])[2]
    ELSE ""

(***************************************************************************)
(*      GSM modem: the three command parsers                               *)
(*                                                                         *)
(* A parser returns [kind, ret, waserror, status]: kind "ok" for a normal  *)
(* return, "panic" for an index out of range, "cmgs" when parseAssignment  *)
(* goes on to prompt for a PDU (modem.go:214-230).                         *)
(***************************************************************************)
Parsed(ret, waserror, st) == [kind |-> "ok", ret |-> ret, waserror |-> waserror, status |-> st]
ParsePanic(st) == [kind |-> "panic", ret |-> "", waserror |-> FALSE, status |-> st]
ParseCmgs(st) == [kind |-> "cmgs", ret |-> "", waserror |-> FALSE, status |-> st]

\* "s = strings.Replace(s, "AT+", "", 1); if s[0] == '+' { s = s[1:] }":
\* the command name part, or "panic" in kind when s[0] is out of range
ChopAT(s) ==
    LET t == ReplaceFirst(s, "AT+", "")
    IN IF Len(t) = 0 THEN [kind |-> "panic", s |-> t]
       ELSE IF CharAt(t, 0) = "+" THEN [kind |-> "ok", s |-> StrDrop(t, 1)]
       ELSE [kind |-> "ok", s |-> t]

\* the operator name of COPS? for a regformat
CopsName(regformat) ==
    IF regformat = 0 THEN "\"Minimobile Network\""
    ELSE IF regformat = 1 THEN "\"MINIMOBILE\""
    ELSE IF regformat = 2 THEN "\"00101\""
    ELSE ""

parseQuery(st, sub) ==
    LET c == ChopAT(sub)
        s == c.s
    IN IF c.kind = "panic" THEN ParsePanic(st)
       ELSE IF s = "CFUN?" THEN Parsed("\r\n+CFUN: 1\r\n", FALSE, st)
       ELSE IF s = "CPIN?" THEN Parsed("\r\n+CPIN: READY\r\n", FALSE, st)
       ELSE IF s = "CGREG?"
            THEN Parsed("\r\n+CGREG: " \o StrItoa(st.cgreg) \o ",1\r\n", FALSE, st)
       ELSE IF s = "CREG?"
            THEN Parsed("\r\n+CREG: " \o StrItoa(st.creg) \o ",1,\"036D\",\"58B2\"\r\n",
                        FALSE, st)
       ELSE IF s = "COPS?"
            THEN Parsed("\r\n+COPS: " \o StrItoa(st.regstatus) \o "," \o StrItoa(st.regformat)
                        \o "," \o CopsName(st.regformat) \o "\r\n", FALSE, st)
       ELSE Parsed("", FALSE, st)

\* whether the CRSM branch of parseAssignment raises the error
CrsmIsError(key) == CrsmLookup(key) = ""

parseAssignment(st, sub) ==
    LET c == ChopAT(sub)
    IN IF c.kind = "panic" THEN ParsePanic(st)
       ELSE
       LET subs == StrSplit(c.s, "=")
       IN IF Len(subs) < 2 THEN ParsePanic(st)
          ELSE
          LET args == StrSplit(subs[2], ",")
              name == subs[1]
          IN IF name = "CGREG"
             THEN Parsed("\r\n+CGREG: " \o args[1] \o "\r\n", FALSE,
                         [st EXCEPT !.cgreg = StrAtoi(args[1])])
             ELSE IF name = "CREG"
             THEN Parsed("", FALSE, [st EXCEPT !.creg = StrAtoi(args[1])])
             ELSE IF name = "CPIN"
             THEN Parsed("", FALSE, [st EXCEPT !.pin = StrAtoi(args[1])])
             ELSE IF name = "CMGF"
             THEN Parsed("", FALSE, [st EXCEPT !.cmgf = StrAtoi(args[1])])
             ELSE IF name = "COPS"
             THEN LET mode == StrAtoi(args[1])
                  IN IF mode = 3
                     THEN IF Len(args) < 2 THEN ParsePanic(st)
                          ELSE Parsed("", FALSE, [st EXCEPT !.regformat = StrAtoi(args[2])])
                     ELSE IF mode = 0 \/ mode = 1
                     THEN Parsed("", FALSE, [st EXCEPT !.regstatus = mode])
                     ELSE Parsed("", FALSE, st)
             ELSE IF name = "CRSM"
             THEN IF CrsmIsError(subs[2])
                  THEN Parsed("\r\n+CME ERROR: BAD COMMAND\r\n", TRUE, st)
                  ELSE Parsed("\r\n" \o CrsmLookup(subs[2]) \o "\r\n", FALSE, st)
             ELSE IF name = "CSMS"
             THEN Parsed("\r\n+CSMS: 1,1,1\r\n", FALSE, st)
             ELSE IF name = "CMGS"
             THEN IF st.cmgf = 1 THEN Parsed("", FALSE, st) ELSE ParseCmgs(st)
             ELSE Parsed("", FALSE, st)

otherMessage(st, sub) ==
    LET c == ChopAT(sub)
        s == c.s
    IN IF c.kind = "panic" THEN ParsePanic(st)
       ELSE IF s = "CGSN" THEN Parsed("\r\n135790248939\r\n", FALSE, st)
       ELSE IF s = "CIMI" THEN Parsed("\r\n001011234567890\r\n", FALSE, st)
       ELSE IF s = "CSQ" THEN Parsed("\r\n+CSQ: 31.99\r\n", FALSE, st)
       ELSE Parsed("", FALSE, st)

\* the body of "for _, s := range subs" in Run: pick the parser by the two
\* patterns and call it
ParseSub(st, sub) ==
    IF MatchQuery(sub) THEN parseQuery(st, sub)
    ELSE IF MatchAssign(sub) THEN parseAssignment(st, sub)
    ELSE otherMessage(st, sub)

(***************************************************************************)
(*      GSM modem: the buffered writer Modem.output (bufio.Writer)         *)
(*                                                                         *)
(* WriteString copies the string into buf at n and then adds its length    *)
(* to n; Flush writes buf[0:n] to the connection and then sets n to 0.     *)
(* The modem takes no lock, so the two halves of each are separate steps   *)
(* of the calling goroutine.  The buffer holds 4096 bytes and the bounded  *)
(* runs below stay far under that, so WriteString never flushes by itself. *)
(***************************************************************************)
RECURSIVE Nuls(_)
Nuls(k) ==
    IF k <= 0 THEN ""
    ELSE IF k = 1 THEN NulByte
    ELSE Nuls(k \div 2) \o Nuls(k - (k \div 2))

\* buf[0:n] where the bytes never written are zero
BufPad(b, n) == IF Len(b) >= n THEN b ELSE b \o Nuls(n - Len(b))

\* copy(b.buf[b.n:], s)
BufCopy(b, n, str) ==
    LET padded == BufPad(b, n + Len(str))
    IN StrTake(padded, n) \o str \o StrDrop(padded, n + Len(str))

\* b.buf[0:b.n]
BufContents(b, n) == StrTake(BufPad(b, n), n)

\* WriteString, first half: nothing when b.err is set
WriterCopy(str) ==
    /\ wbuf' = IF werr THEN wbuf ELSE BufCopy(wbuf, wn, str)
    /\ UNCHANGED <<wn, werr, guest>>

\* WriteString, second half: b.n += n
WriterBump(str) ==
    /\ wn' = wn + Len(str)
    /\ UNCHANGED <<wbuf, werr, guest>>

\* Flush is a no-op when b.err is set or b.n is 0
FlushSkips == werr \/ wn = 0

\* Flush, first half: b.wr.Write(b.buf[0:b.n]); a closed connection fails the
\* write and the error is kept in b.err
WriterFlushWrite ==
    IF FlushSkips THEN UNCHANGED <<wbuf, wn, werr, guest>>
    ELSE IF connClosed THEN werr' = TRUE /\ UNCHANGED <<wbuf, wn, guest>>
    ELSE guest' = BufContents(wbuf, wn) /\ UNCHANGED <<wbuf, wn, werr>>

\* Flush, second half: b.n = 0
WriterFlushReset ==
    /\ wn' = 0
    /\ UNCHANGED <<wbuf, werr, guest>>

(***************************************************************************)
(*      GSM modem: Run, the command reader                                 *)
(***************************************************************************)
MaxLines == 2
MaxPush == 1

\* the lines the guest sends, each up to and including its '\r'
GuestLines ==
    { "AT+CREG=2\r", "AT+CREG=0\r", "AT+CGREG=1\r",
      "AT+CGSN;+CRSM=1;+CFUN?\r", "AT+CREG?;+CRSM=176,28433,0,0,1\r",
      "AT+CMGS=17\r", "A\r", "AT+COPS=3\r" }

\* what the guest types after the CMGS prompt, up to and including ctrl-z;
\* "" is a failed read
GuestPdus ==
    { "0001000781685703f9000011f4f29c9e769f63b219ad66bbe17230" \o CtrlZ, "" }

\* the number the modem was created with
ModemNumber == 5551234

\* a panic in any goroutine ends the process
Alive == runPc # "crashed" /\ pushPc # "crashed" /\ nodePc # "crashed"

\* a founderr that follows the latest subcommand only
FoundErrLast(founderr, waserr) == waserr

\* "if waserr == true { founderr = true }"
FoundErr(founderr, waserr) == founderr \/ waserr

\* "go m.cgregmsg(); go m.cregmsg()" at the head of Run
RunStart ==
    /\ runPc = "idle"
    /\ runPc' = "select"
    /\ tickPc' = [t \in Tickers |-> "tick"]
    /\ UNCHANGED <<outsideModem, pushLocals, clearVars, modemData, writerVars, runLine, runSubs, runOut,
                   runFoundErr, runReplies, runMsg, linesRead, tickLocal, callVars>>

\* "select { case <-m.done: return nil": the rendezvous with Close's send
RunSelectDone ==
    /\ Alive
    /\ runPc = "select"
    /\ closePc = "sending"
    /\ runPc' = "returned"
    /\ closePc' = "closeChan"
    /\ UNCHANGED <<outsideModem, pushLocals, clearVars, modemData, writerVars, runLine, runSubs, runOut,
                   runFoundErr, runReplies, runMsg, linesRead, tickVars, pushPc, pushes>>

\* "default:" is taken when no sender waits on done
RunSelectDefault ==
    /\ Alive
    /\ runPc = "select"
    /\ closePc # "sending"
    /\ runPc' = "read"
    /\ UNCHANGED <<outsideModem, pushLocals, clearVars, modemData, writerVars, runLine, runSubs, runOut,
                   runFoundErr, runReplies, runMsg, linesRead, tickVars, callVars>>

\* "line, err := m.input.ReadString('\r')" with err == nil, the formatting of the
\* line and the split into subcommands
RunReadFrom(lines, max) ==
    /\ Alive
    /\ runPc = "read"
    /\ linesRead < max
    /\ \E read \in lines :
          LET line == ReplaceFirst(StrTake(read, Len(read) - 1), "\r\n", "")
          IN IF Len(line) <= 1
             THEN /\ runPc' = "select"
                  /\ UNCHANGED <<runLine, runSubs>>
             ELSE /\ runPc' = "sub"
                  /\ runLine' = line
                  /\ runSubs' = StrSplit(line, ";")
    /\ runOut' = ""
    /\ runFoundErr' = FALSE
    /\ runReplies' = <<>>
    /\ linesRead' = linesRead + 1
    /\ UNCHANGED <<outsideModem, pushLocals, clearVars, modemData, writerVars, runMsg, tickVars, callVars>>

\* a line from the guest
RunRead == RunReadFrom(GuestLines, MaxLines)

\* ReadString fails (the guest end went away): Run returns the error
RunReadErr ==
    /\ Alive
    /\ runPc = "read"
    /\ runPc' = "failed"
    /\ UNCHANGED <<outsideModem, pushLocals, clearVars, modemData, writerVars, runLine, runSubs, runOut,
                   runFoundErr, runReplies, runMsg, linesRead, tickVars, callVars>>

\* the end of one iteration of "for _, s := range subs" with the subcommand's
\* reply tmp and error flag waserr
RunSubDone(tmp, waserr) ==
    /\ runOut' = runOut \o tmp
    /\ runFoundErr' = FoundErr(runFoundErr, waserr)
    /\ runReplies' = Append(runReplies, [tmp |-> tmp, waserr |-> waserr])
    /\ runSubs' = Tail(runSubs)
    /\ runPc' = IF Len(runSubs) = 1 THEN "reply" ELSE "sub"

\* one subcommand.  A CMGS in PDU mode writes the prompt and goes on in
\* RunPromptBump; an index out of range in a parser ends the process
RunSub ==
    /\ Alive
    /\ runPc = "sub"
    /\ LET r == ParseSub(status, Head(runSubs))
       IN IF r.kind = "panic"
          THEN /\ runPc' = "crashed"
               /\ UNCHANGED <<status, writerVars, runSubs, runOut, runFoundErr, runReplies>>
          ELSE IF r.kind = "cmgs"
          THEN /\ WriterCopy("\r\n> ")
               /\ runPc' = IF werr THEN "cmgsRead" ELSE "promptBump"
               /\ UNCHANGED <<status, runSubs, runOut, runFoundErr, runReplies>>
          ELSE /\ status' = r.status
               /\ RunSubDone(r.ret, r.waserror)
               /\ UNCHANGED writerVars
    /\ UNCHANGED <<outsideModem, pushLocals, clearVars, Number, Inbox, Outbox, posted, chanClosed, connClosed,
                   runLine, runMsg, linesRead, tickVars, callVars>>

RunPromptBump ==
    /\ Alive
    /\ runPc = "promptBump"
    /\ WriterBump("\r\n> ")
    /\ runPc' = "promptFlush"
    /\ UNCHANGED <<outsideModem, pushLocals, clearVars, modemData, runLine, runSubs, runOut, runFoundErr,
                   runReplies, runMsg, linesRead, tickVars, callVars>>

RunPromptFlush ==
    /\ Alive
    /\ runPc = "promptFlush"
    /\ WriterFlushWrite
    /\ runPc' = IF FlushSkips \/ connClosed THEN "cmgsRead" ELSE "promptReset"
    /\ UNCHANGED <<outsideModem, pushLocals, clearVars, modemData, runLine, runSubs, runOut, runFoundErr,
                   runReplies, runMsg, linesRead, tickVars, callVars>>

RunPromptReset ==
    /\ Alive
    /\ runPc = "promptReset"
    /\ WriterFlushReset
    /\ runPc' = "cmgsRead"
    /\ UNCHANGED <<outsideModem, pushLocals, clearVars, modemData, runLine, runSubs, runOut, runFoundErr,
                   runReplies, runMsg, linesRead, tickVars, callVars>>

\* "input, _ := m.input.ReadString(ctrl-z); input = input[:len(input)-1];
\*  msg, err := pduSmsUnpack(input); msg.Src = m.Number"
RunCmgsReadFrom(inputs) ==
    /\ Alive
    /\ runPc = "cmgsRead"
    /\ \E input \in inputs :
          IF Len(input) = 0
          THEN runPc' = "crashed" /\ runMsg' = runMsg
          ELSE LET r == pduSmsUnpack(HexToNibbles(StrTake(input, Len(input) - 1)))
               IN IF r.kind = "panic"
                  THEN runPc' = "crashed" /\ runMsg' = runMsg
                  ELSE /\ runPc' = "cmgsSend"
                       /\ runMsg' = [(IF r.kind = "ok" THEN r.val ELSE ZeroMessage)
                                        EXCEPT !.Src = Number]
    /\ UNCHANGED <<outsideModem, pushLocals, clearVars, modemData, writerVars, runLine, runSubs, runOut,
                   runFoundErr, runReplies, linesRead, tickVars, callVars>>

RunCmgsRead == RunCmgsReadFrom(GuestPdus)

\* a byte incremented without wrapping
ByteIncNoWrap(b) == b + 1

\* "m.status.mr++" on a byte
ByteInc(b) == (b + 1) % 256

\* "m.MessageChan <- msg" received by the postman: the channel is
\* unbuffered, so the send waits until runPostman is back at its receive.  A
\* send on the closed channel panics
RunCmgsSend ==
    /\ Alive
    /\ runPc = "cmgsSend"
    /\ IF chanClosed
       THEN runPc' = "crashed" /\ posted' = posted /\ postPc' = postPc
       ELSE /\ postPc \in {"none", "recv"}
            /\ runPc' = "cmgsLoad"
            /\ posted' = Append(posted, runMsg)
            /\ postPc' = IF postPc = "recv" THEN "deliver" ELSE postPc
    /\ UNCHANGED <<pduVars, numVars, wifiVars, gpsVars, raceVars, wanderVars, wifiCloseVars, inboxVars, tapVars, postDone, pushLocals, clearVars, status, Number, Inbox, Outbox, chanClosed,
                   connClosed, writerVars, runLine, runSubs, runOut, runFoundErr,
                   runReplies, runMsg, linesRead, tickVars, callVars>>

\* "m.Outbox = append(m.Outbox, msg)", first half: the read of m.Outbox.  No
\* lock orders it with ClearHistory
RunCmgsLoad ==
    /\ Alive
    /\ runPc = "cmgsLoad"
    /\ runOld' = Outbox
    /\ runPc' = "cmgsStore"
    /\ UNCHANGED <<outsideModem, pushLocals, clearPc, clears, clearedAt, modemData, writerVars,
                   runLine, runSubs, runOut, runFoundErr, runReplies, runMsg, linesRead,
                   tickVars, callVars>>

\* the second half, the write of m.Outbox, then the reply and "m.status.mr++"
RunCmgsStore ==
    /\ Alive
    /\ runPc = "cmgsStore"
    /\ Outbox' = Append(runOld, runMsg)
    /\ runOld' = <<>>
    /\ status' = [status EXCEPT !.mr = ByteInc(status.mr)]
    /\ RunSubDone("\r\n+CMGS: " \o StrItoa(status.mr) \o "\r\n", FALSE)
    /\ UNCHANGED <<outsideModem, pushLocals, clearPc, clears, clearedAt, Number, Inbox, posted,
                   chanClosed, connClosed, writerVars, runLine, runMsg, linesRead,
                   tickVars, callVars>>

\* the end of an iteration of Run's loop: the locals of the body are gone
RunLoop ==
    /\ runPc' = "select"
    /\ runLine' = ""
    /\ runOut' = ""
    /\ runFoundErr' = FALSE
    /\ runReplies' = <<>>
    /\ UNCHANGED <<runSubs, runMsg, linesRead>>

\* "if founderr == false { out = out + msgOK }; m.output.WriteString(out)",
\* first half
RunReply ==
    /\ Alive
    /\ runPc = "reply"
    /\ LET out == IF runFoundErr = FALSE THEN runOut \o msgOK ELSE runOut
       IN /\ WriterCopy(out)
          /\ IF werr THEN RunLoop
             ELSE /\ runOut' = out
                  /\ runPc' = "replyBump"
                  /\ UNCHANGED <<runLine, runSubs, runFoundErr, runReplies, runMsg, linesRead>>
    /\ UNCHANGED <<outsideModem, pushLocals, clearVars, modemData, tickVars, callVars>>

RunReplyBump ==
    /\ Alive
    /\ runPc = "replyBump"
    /\ WriterBump(runOut)
    /\ runPc' = "replyFlush"
    /\ UNCHANGED <<outsideModem, pushLocals, clearVars, modemData, runLine, runSubs, runOut, runFoundErr,
                   runReplies, runMsg, linesRead, tickVars, callVars>>

RunReplyFlush ==
    /\ Alive
    /\ runPc = "replyFlush"
    /\ WriterFlushWrite
    /\ IF FlushSkips \/ connClosed THEN RunLoop
       ELSE /\ runPc' = "replyReset"
            /\ UNCHANGED <<runLine, runSubs, runOut, runFoundErr, runReplies, runMsg, linesRead>>
    /\ UNCHANGED <<outsideModem, pushLocals, clearVars, modemData, tickVars, callVars>>

RunReplyReset ==
    /\ Alive
    /\ runPc = "replyReset"
    /\ WriterFlushReset
    /\ RunLoop
    /\ UNCHANGED <<outsideModem, pushLocals, clearVars, modemData, tickVars, callVars>>

(***************************************************************************)
(*      GSM modem: cregmsg and cgregmsg, the unsolicited-event goroutines  *)
(*                                                                         *)
(* Both are "for { if local != mode && mode == enabled { WriteString;      *)
(* local = mode }; Sleep(10 s) }" with no exit.  The condition reads the   *)
(* shared mode twice, Run writes it without a lock, so each read is a step.*)
(* A goroutine at "tick" is asleep, or at the head of its first iteration; *)
(* its step is the return of Sleep together with the first read.           *)
(***************************************************************************)
\* m.status.creg for cregmsg, m.status.cgreg for cgregmsg
Mode(t) == IF t = "creg" THEN status.creg ELSE status.cgreg

\* the mode value the goroutine waits for
EnabledMode(t) == IF t = "creg" THEN 2 ELSE 1

\* the string the goroutine writes
TickerEvent(t) ==
    IF t = "creg" THEN "\r\n+CREG: 1,\"036D\",\"58B2\"\r\n" \o msgOK
    ELSE "\r\n+CGREG: 1\r\n" \o msgOK

\* a left operand that always holds
TickerAlways(local, mode) == TRUE

\* "creg != m.status.creg"
TickerDiffers(local, mode) == local # mode

\* a tick: Sleep returns and the left operand of the condition is evaluated;
\* when it is false the goroutine sleeps again
TickerTick(t) ==
    /\ Alive
    /\ tickPc[t] = "tick"
    /\ tickPc' = [tickPc EXCEPT ![t] = IF TickerDiffers(tickLocal[t], Mode(t))
                                       THEN "check2" ELSE "tick"]
    /\ UNCHANGED <<outsideModem, pushLocals, clearVars, modemData, writerVars, runVars, tickLocal, callVars>>

\* the right operand and, when it holds, the first half of WriteString
TickerWrite(t) ==
    /\ Alive
    /\ tickPc[t] = "check2"
    /\ IF Mode(t) = EnabledMode(t)
       THEN /\ WriterCopy(TickerEvent(t))
            /\ tickPc' = [tickPc EXCEPT ![t] = "bump"]
       ELSE /\ tickPc' = [tickPc EXCEPT ![t] = "tick"]
            /\ UNCHANGED writerVars
    /\ UNCHANGED <<outsideModem, pushLocals, clearVars, modemData, runVars, tickLocal, callVars>>

\* the second half of WriteString (skipped when the writer has failed), then
\* "creg = m.status.creg"
TickerBump(t) ==
    /\ Alive
    /\ tickPc[t] = "bump"
    /\ IF werr THEN UNCHANGED writerVars ELSE WriterBump(TickerEvent(t))
    /\ tickLocal' = [tickLocal EXCEPT ![t] = Mode(t)]
    /\ tickPc' = [tickPc EXCEPT ![t] = "tick"]
    /\ UNCHANGED <<outsideModem, pushLocals, clearVars, modemData, runVars, callVars>>

(***************************************************************************)
(*      GSM modem: PushSMS and Close, called from other goroutines         *)
(***************************************************************************)
\* the messages pushed: a short one, the one character 0x05, and one too long
\* to pack
PushMsgs ==
    { [ZeroMessage EXCEPT !.Src = 15, !.Dst = ModemNumber, !.Message = <<104, 105>>],
      [ZeroMessage EXCEPT !.Src = 15, !.Dst = ModemNumber, !.Message = <<5>>],
      [ZeroMessage EXCEPT !.Src = 15, !.Dst = ModemNumber,
                          !.Message = [i \in 1..(MaxSeptets + 1) |-> 97]] }

\* the +CMT frame of a packed PDU
CmtFrame(pdu) == "\r\n+CMT: 0\r\n" \o NibblesToHex(pdu) \o "\r\n"

\* PushSMS(msg) up to and including the first half of WriteString; it returns
\* the packing error at once, and the debug pduSmsUnpack may panic
PushCall(msg) ==
    /\ Alive
    /\ pushPc = "idle"
    /\ LET r == pduSmsPack(msg)
       IN IF r.kind # "ok"
          THEN /\ pushPc' = "idle"
               /\ pushList' = <<>>
               /\ UNCHANGED <<Inbox, writerVars, pushFrame>>
          ELSE /\ Inbox' = Append(Inbox, msg)
               /\ pushList' = IF Len(pushList) = 0 THEN <<>> ELSE Tail(pushList)
               /\ IF pduSmsUnpack(r.val).kind = "panic"
                  THEN pushPc' = "crashed" /\ UNCHANGED <<writerVars, pushFrame>>
                  ELSE /\ WriterCopy(CmtFrame(r.val))
                       /\ pushFrame' = CmtFrame(r.val)
                       /\ pushPc' = IF werr THEN "idle" ELSE "bump"
    /\ UNCHANGED <<outsideModem, clearVars, cliMsgs, status, Number, Outbox, posted, chanClosed,
                   connClosed, runVars, tickVars, closePc>>

\* one PushSMS call from outside the command line's push loop
PushSMS ==
    /\ pushList = <<>>
    /\ pushes < MaxPush
    /\ pushes' = pushes + 1
    /\ \E msg \in PushMsgs : PushCall(msg)

\* the texts and the sender given to "sms push": one, two and three segments
CliTextLens == {2, 160, 305}

CliTexts == { [i \in 1..n |-> 97] : n \in CliTextLens }

CliFrom == 8675309

\* cliSMS with "push", issued once: "msgs := minimodem.NewMessage(from,
\* vm.Modem.Number, message)"
CliSms ==
    /\ Alive
    /\ pushPc = "idle"
    /\ pushList = <<>>
    /\ cliMsgs = <<>>
    /\ \E message \in CliTexts, refId \in randomRefId :
          cliMsgs' = NewMessage(CliFrom, Number, message, refId)
    /\ pushList' = cliMsgs'
    /\ UNCHANGED <<outsideModem, clearVars, pushFrame, modemData, writerVars, runVars, tickVars,
                   callVars>>

\* the loop taking the last element first
LastSegment(list) == list[Len(list)]

\* the element "for _, msg := range msgs" takes next
NextSegment(list) == Head(list)

\* one iteration of cliSMS's loop: "vm.Modem.PushSMS(msg)", the loop ending
\* on its error
CliPush ==
    /\ pushList # <<>>
    /\ PushCall(NextSegment(pushList))
    /\ UNCHANGED pushes

PushBump ==
    /\ Alive
    /\ pushPc = "bump"
    /\ WriterBump(pushFrame)
    /\ pushPc' = "flush"
    /\ UNCHANGED <<outsideModem, pushLocals, clearVars, modemData, runVars, tickVars, pushes, closePc>>

PushFlush ==
    /\ Alive
    /\ pushPc = "flush"
    /\ WriterFlushWrite
    /\ pushPc' = IF FlushSkips \/ connClosed THEN "idle" ELSE "reset"
    /\ UNCHANGED <<outsideModem, pushLocals, clearVars, modemData, runVars, tickVars, pushes, closePc>>

PushReset ==
    /\ Alive
    /\ pushPc = "reset"
    /\ WriterFlushReset
    /\ pushPc' = "idle"
    /\ UNCHANGED <<outsideModem, pushLocals, clearVars, modemData, runVars, tickVars, pushes, closePc>>

MaxClears == 1

\* ClearHistory, called from the command line: "m.Inbox = nil"
ClearInbox ==
    /\ Alive
    /\ clearPc = "idle"
    /\ clears < MaxClears
    /\ clears' = clears + 1
    /\ Inbox' = <<>>
    /\ clearPc' = "outbox"
    /\ UNCHANGED <<outsideModem, pushLocals, runOld, clearedAt, status, Number, Outbox, posted,
                   chanClosed, connClosed, writerVars, runVars, tickVars, callVars>>

\* ClearHistory: "m.Outbox = nil"
ClearOutbox ==
    /\ Alive
    /\ clearPc = "outbox"
    /\ Outbox' = <<>>
    /\ clearedAt' = Len(posted)
    /\ clearPc' = "idle"
    /\ UNCHANGED <<outsideModem, pushLocals, runOld, clears, status, Number, Inbox, posted,
                   chanClosed, connClosed, writerVars, runVars, tickVars, callVars>>

\* a Close that does not wait for Run to take the value from done
CloseCallNoWait ==
    /\ Alive
    /\ closePc = "idle"
    /\ closePc' = "closeChan"
    /\ UNCHANGED <<outsideModem, pushLocals, clearVars, modemData, writerVars, runVars, tickVars, pushPc, pushes>>

\* Close is called and blocks in "m.done <- true" until Run receives
CloseCall ==
    /\ Alive
    /\ closePc = "idle"
    /\ closePc' = "sending"
    /\ UNCHANGED <<outsideModem, pushLocals, clearVars, modemData, writerVars, runVars, tickVars, pushPc, pushes>>

\* close(m.MessageChan)
CloseChan ==
    /\ Alive
    /\ closePc = "closeChan"
    /\ chanClosed' = TRUE
    /\ closePc' = "closeConn"
    /\ UNCHANGED <<outsideModem, pushLocals, clearVars, status, Number, Inbox, Outbox, posted, connClosed,
                   writerVars, runVars, tickVars, pushPc, pushes>>

\* return m.conn.Close()
CloseConn ==
    /\ Alive
    /\ closePc = "closeConn"
    /\ connClosed' = TRUE
    /\ closePc' = "closed"
    /\ UNCHANGED <<outsideModem, pushLocals, clearVars, status, Number, Inbox, Outbox, posted, chanClosed,
                   writerVars, runVars, tickVars, pushPc, pushes>>

(***************************************************************************)
(*      Specification of one modem: Run with its two goroutines, one       *)
(*      caller of PushSMS and one caller of Close                          *)
(***************************************************************************)
\* the modem as NewModem leaves it, Run about to start
ModemReady ==
    /\ status = NewStatus
    /\ Number = ModemNumber
    /\ Inbox = <<>>
    /\ Outbox = <<>>
    /\ posted = <<>>
    /\ chanClosed = FALSE
    /\ connClosed = FALSE
    /\ wbuf = ""
    /\ wn = 0
    /\ werr = FALSE
    /\ guest = ""
    /\ linesRead = 0
    /\ runPc = "idle"
    /\ runLine = ""
    /\ runSubs = <<>>
    /\ runOut = ""
    /\ runFoundErr = FALSE
    /\ runReplies = <<>>
    /\ runMsg = ZeroMessage
    /\ tickPc = [t \in Tickers |-> "none"]
    /\ tickLocal = [t \in Tickers |-> 0]
    /\ pushPc = "idle"
    /\ pushes = 0
    /\ closePc = "idle"
    /\ runOld = <<>>
    /\ clearPc = "idle"
    /\ clears = 0
    /\ clearedAt = 0
    /\ pushFrame = ""
    /\ pushList = <<>>
    /\ cliMsgs = <<>>

ModemInit ==
    /\ ModemReady
    /\ PduIdle
    /\ NumIdle
    /\ WifiIdle
    /\ NodeIdle

ModemNext ==
    \/ RunStart \/ RunSelectDone \/ RunSelectDefault \/ RunRead \/ RunReadErr
    \/ RunSub \/ RunPromptBump \/ RunPromptFlush \/ RunPromptReset
    \/ RunCmgsRead \/ RunCmgsSend \/ RunCmgsLoad \/ RunCmgsStore
    \/ RunReply \/ RunReplyBump \/ RunReplyFlush \/ RunReplyReset
    \/ \E t \in Tickers : TickerTick(t) \/ TickerWrite(t) \/ TickerBump(t)
    \/ PushSMS \/ PushBump \/ PushFlush \/ PushReset
    \/ CloseCall \/ CloseChan \/ CloseConn

SpecModem == ModemInit /\ [][ModemNext]_vars

\* the modem left alone with its guest: Run and its two goroutines, with no
\* PushSMS and no Close from outside
ReaderNext ==
    \/ RunStart \/ RunSelectDefault \/ RunRead \/ RunReadErr
    \/ RunSub \/ RunPromptBump \/ RunPromptFlush \/ RunPromptReset
    \/ RunCmgsRead \/ RunCmgsSend \/ RunCmgsLoad \/ RunCmgsStore
    \/ RunReply \/ RunReplyBump \/ RunReplyFlush \/ RunReplyReset
    \/ \E t \in Tickers : TickerTick(t) \/ TickerWrite(t) \/ TickerBump(t)

SpecReader == ModemInit /\ [][ReaderNext]_vars

\* the modem with its guest and the command line: Run, the caller of PushSMS
\* and the caller of ClearHistory, with no Close and the two event goroutines
\* not running
SmsNext ==
    \/ RunStart \/ RunSelectDefault \/ RunRead \/ RunReadErr
    \/ RunSub \/ RunPromptBump \/ RunPromptFlush \/ RunPromptReset
    \/ RunCmgsRead \/ RunCmgsSend \/ RunCmgsLoad \/ RunCmgsStore
    \/ RunReply \/ RunReplyBump \/ RunReplyFlush \/ RunReplyReset
    \/ PushSMS \/ PushBump \/ PushFlush \/ PushReset
    \/ ClearInbox \/ ClearOutbox

SpecSms == ModemInit /\ [][SmsNext]_vars

\* a guest that sends one SMS after another, each between two other commands
\* of the same line, for long enough to take the message reference round its
\* 256 values.  It never enables CREG or CGREG
\* reporting, so the ticks of the two goroutines change nothing and are left
\* out.
MaxCmgs == 258

CmgsLines == { "AT+CSMS=1;+CMGS=17;+CMGF=0\r" }

RunReadCmgs == RunReadFrom(CmgsLines, MaxCmgs)

MrNext ==
    \/ RunStart \/ RunSelectDefault \/ RunReadCmgs \/ RunReadErr
    \/ RunSub \/ RunPromptBump \/ RunPromptFlush \/ RunPromptReset
    \/ RunCmgsRead \/ RunCmgsSend \/ RunCmgsLoad \/ RunCmgsStore
    \/ RunReply \/ RunReplyBump \/ RunReplyFlush \/ RunReplyReset

SpecMr == ModemInit /\ [][MrNext]_vars

\* the lines the guest sends while the command line pushes
CliLines == {"AT+CGSN;+CRSM=1;+CFUN?\r", "AT+CMGS=17\r"}

MaxCliLines == 1

RunReadCli == RunReadFrom(CliLines, MaxCliLines)

\* the modem with its guest and one "sms push" of the command line
CliNext ==
    \/ RunStart \/ RunSelectDefault \/ RunReadCli \/ RunReadErr
    \/ RunSub \/ RunPromptBump \/ RunPromptFlush \/ RunPromptReset
    \/ RunCmgsRead \/ RunCmgsSend \/ RunCmgsLoad \/ RunCmgsStore
    \/ RunReply \/ RunReplyBump \/ RunReplyFlush \/ RunReplyReset
    \/ CliSms \/ CliPush \/ PushBump \/ PushFlush \/ PushReset

SpecCli == ModemInit /\ [][CliNext]_vars

(***************************************************************************)
(*          The Wi-Fi supplicant emulator (package miniwifi)               *)
(***************************************************************************)
\* the interface prefix every command starts with
PREFIX == "IFNAME=eth0 "

\* strings.HasPrefix, strings.TrimPrefix
HasPrefix(s, pre) == Len(s) >= Len(pre) /\ StrTake(s, Len(pre)) = pre

TrimPrefix(s, pre) == IF HasPrefix(s, pre) THEN StrDrop(s, Len(pre)) ELSE s

QuoteChar == "\""

\* Trim leaving the quotes in place
KeepQuotes(s) == s

\* strings.Trim(s, "\""): the leading and trailing quote characters removed
RECURSIVE TrimQuotes(_)
TrimQuotes(s) ==
    IF Len(s) > 0 /\ CharAt(s, 0) = QuoteChar THEN TrimQuotes(StrDrop(s, 1))
    ELSE IF Len(s) > 0 /\ CharAt(s, Len(s) - 1) = QuoteChar
         THEN TrimQuotes(StrTake(s, Len(s) - 1))
    ELSE s

\* the character classes of the regular expressions
WordChars == "0123456789ABCDEFGHIJKLMNOPQRSTUVWXYZ_abcdefghijklmnopqrstuvwxyz"

NonPrint == NulByte \o CtrlZ \o "\n\r\t"

\* the characters of a string, as a set
CharSet(class) == {SubSeq(class, k, k) : k \in 1..Len(class)}

WordSet == CharSet(WordChars)

NonPrintSet == CharSet(NonPrint)

DigitSet == CharSet(Digits)

\* the end (0-based, exclusive) of the longest run, starting at position i of
\* s, of characters that are in class (in = TRUE) or outside it (in = FALSE)
RECURSIVE RunEnd(_, _, _, _)
RunEnd(s, i, class, in) ==
    IF i < Len(s) /\ ((CharAt(s, i) \in class) = in) THEN RunEnd(s, i + 1, class, in) ELSE i

DigitRun(s, i) == RunEnd(s, i, DigitSet, TRUE)

WordRun(s, i) == RunEnd(s, i, WordSet, TRUE)

PrintRun(s, i) == RunEnd(s, i, NonPrintSet, FALSE)

\* the least element of a non-empty set of integers
Least(S) == CHOOSE i \in S : \A j \in S : i <= j

\* re.FindStringSubmatch(cmd)[1] for the expression  name ([0-9]+) : the digits
\* of the leftmost match, "" when there is no match
MatchId(cmd, name) ==
    LET pat == name \o " "
        at == {i \in 0..(Len(cmd) - Len(pat) - 1) :
                  /\ SubSeq(cmd, i + 1, i + Len(pat)) = pat
                  /\ IsDigit(CharAt(cmd, i + Len(pat)))}
    IN IF at = {} THEN ""
       ELSE LET b == Least(at) + Len(pat)
            IN SubSeq(cmd, b + 1, DigitRun(cmd, b))

\* the match of  SET_NETWORK ([0-9]+) ([[:word:]]+) ([[:print:]]+)  at
\* position i of cmd
SetMatchAt(cmd, i) ==
    LET b == i + 12
        e1 == DigitRun(cmd, b)
        e2 == WordRun(cmd, e1 + 1)
        e3 == PrintRun(cmd, e2 + 1)
    IN IF /\ SubSeq(cmd, i + 1, b) = "SET_NETWORK "
          /\ e1 > b /\ e1 < Len(cmd) /\ CharAt(cmd, e1) = " "
          /\ e2 > e1 + 1 /\ e2 < Len(cmd) /\ CharAt(cmd, e2) = " "
          /\ e3 > e2 + 1
       THEN [ok |-> TRUE, id |-> SubSeq(cmd, b + 1, e1), key |-> SubSeq(cmd, e1 + 2, e2),
             value |-> SubSeq(cmd, e2 + 2, e3)]
       ELSE [ok |-> FALSE, id |-> "", key |-> "", value |-> ""]

\* re.FindStringSubmatch of setNetworkProperty: the leftmost match
SetMatch(cmd) ==
    LET at == {i \in 0..(Len(cmd) - 12) : SetMatchAt(cmd, i).ok}
    IN IF at = {} THEN [ok |-> FALSE, id |-> "", key |-> "", value |-> ""]
       ELSE SetMatchAt(cmd, Least(at))

\* a Go map of strings: the value of a key ("" when absent), an assignment,
\* a delete
MapGet(m, k) == IF k \in DOMAIN m THEN m[k] ELSE ""

MapSet(m, k, v) == [x \in (DOMAIN m) \cup {k} |-> IF x = k THEN v ELSE m[x]]

MapDelete(m, k) == [x \in (DOMAIN m) \ {k} |-> m[x]]

\* m.networks[id], nil (read as the empty map) when there is no such network
NetProps(nets, id) == IF id \in DOMAIN nets THEN nets[id] ELSE <<>>

\* the default properties addNetwork seeds
DefaultProps ==
    [k \in {"proto", "key_mgmt", "pairwise", "scan_ssid", "group", "engine"} |->
        CASE k = "proto" -> "WPA RSN"
          [] k = "key_mgmt" -> "WPA-PSK WPA-EAP"
          [] k = "pairwise" -> "CCMP TKIP"
          [] k = "scan_ssid" -> "0"
          [] k = "group" -> "CCMP TKIP WEP104 WEP40"
          [] k = "engine" -> "0"]

\* a feeder that sends the same id again
NetIdStuck(i) == i

\* the goroutine of NewModem feeding netIdChan: the value sent after i
NetIdSucc(i) == i + 1

\* addNetwork: the id received from netIdChan, the table with the new network
addNetwork(nets, next) ==
    [id |-> next, networks |-> MapSet(nets, next, DefaultProps), next |-> NetIdSucc(next)]

\* removeNetwork: the selection and the table after it
removeNetwork(nets, sel, cmd) ==
    LET match == MatchId(cmd, "REMOVE_NETWORK")
    IN IF match = "" THEN [networks |-> nets, selectedNetwork |-> sel]
       ELSE LET id == StrAtoi(match)
            IN [networks |-> MapDelete(nets, id),
                selectedNetwork |-> IF id = sel THEN -1 ELSE sel]

\* setNetworkProperty storing the value only under the key "ssid"
setSsidOnly(nets, cmd) ==
    LET match == SetMatch(cmd)
        id == StrAtoi(match.id)
    IN IF ~match.ok THEN [kind |-> "false", networks |-> nets]
       ELSE IF id \notin DOMAIN nets THEN [kind |-> "panic", networks |-> nets]
       ELSE IF match.key # "ssid" THEN [kind |-> "true", networks |-> nets]
       ELSE [kind |-> "true",
             networks |-> MapSet(nets, id, MapSet(nets[id], match.key, match.value))]

\* setNetworkProperty: false when the command does not parse, a panic on the
\* assignment into the nil map of a network that does not exist, else the
\* value stored under the key
setNetworkProperty(nets, cmd) ==
    LET match == SetMatch(cmd)
        id == StrAtoi(match.id)
    IN IF ~match.ok THEN [kind |-> "false", networks |-> nets]
       ELSE IF id \notin DOMAIN nets THEN [kind |-> "panic", networks |-> nets]
       ELSE [kind |-> "true",
             networks |-> MapSet(nets, id, MapSet(nets[id], match.key, match.value))]

\* enableNetwork: m.networks[id]["enabled"] = "true"
enableNetwork(nets, cmd) ==
    LET match == MatchId(cmd, "ENABLE_NETWORK")
        id == StrAtoi(match)
    IN IF match = "" THEN [kind |-> "ok", networks |-> nets]
       ELSE IF id \notin DOMAIN nets THEN [kind |-> "panic", networks |-> nets]
       ELSE [kind |-> "ok", networks |-> MapSet(nets, id, MapSet(nets[id], "enabled", "true"))]

\* disableNetwork: delete(m.networks[id], "enabled")
disableNetwork(nets, cmd) ==
    LET match == MatchId(cmd, "DISABLE_NETWORK")
        id == StrAtoi(match)
    IN IF match = "" \/ id \notin DOMAIN nets THEN nets
       ELSE MapSet(nets, id, MapDelete(nets[id], "enabled"))

\* "%02x"
Hex2(n) == CharAt(HexDigits, n \div 16) \o CharAt(HexDigits, n % 16)

\* the bssid UpdateScanResults derives from the index
Bssid(id) ==
    "00:00:00:" \o Hex2((id \div 65536) % 256) \o ":" \o Hex2((id \div 256) % 256)
        \o ":" \o Hex2(id % 256)

\* the level UpdateScanResults gives every entry
StaticLevel == -44

\* the entry UpdateScanResults appends for the id-th ssid
NewScanResult(id, ssid) ==
    [id |-> id, bssid |-> Bssid(id), freq |-> 2412, level |-> StaticLevel,
     tsf |-> "0000000000000000", flags |-> "[OPEN]", ssid |-> ssid]

\* the first scan result whose ssid is the network's ssid without its quotes
\* (its index, 0 when there is none)
ScanMatch(scan, ssid) ==
    LET at == {i \in 1..Len(scan) : scan[i].ssid = TrimQuotes(ssid)}
    IN IF at = {} THEN 0 ELSE Least(at)

\* "m.selectedNetwork < 0 || m.networks[m.selectedNetwork] == nil"
NoSelection(nets, sel) == sel < 0 \/ sel \notin DOMAIN nets

StatusDisconnected ==
    "wpa_state=DISCONNECTED\naddress=00:00:00:00:00:00\nuuid=00000000-0000-0000-0000-000000000000\n"

\* getStatus
getStatus(nets, sel, scan) ==
    IF NoSelection(nets, sel) THEN [s |-> StatusDisconnected, err |-> FALSE]
    ELSE LET ssid == MapGet(nets[sel], "ssid")
             i == ScanMatch(scan, ssid)
         IN IF ssid = "" THEN [s |-> "", err |-> TRUE]
            ELSE IF i = 0 THEN [s |-> "", err |-> FALSE]
            ELSE [s |-> "bssid=" \o scan[i].bssid \o "\nfreq=" \o StrItoa(scan[i].freq)
                        \o "\nssid=" \o ssid \o "\nid=" \o StrItoa(sel)
                        \o "\nmode=station\nwpa_state=COMPLETED\n",
                  err |-> FALSE]

\* the bssid getConnectedString and getStateChangeString report
ConnectedBssid(scan, ssid) ==
    IF ScanMatch(scan, ssid) = 0 THEN "00:00:00:00:00:00" ELSE scan[ScanMatch(scan, ssid)].bssid

\* getConnectedString
getConnectedString(nets, sel, scan) ==
    IF NoSelection(nets, sel) \/ MapGet(NetProps(nets, sel), "ssid") = ""
    THEN [s |-> "", err |-> TRUE]
    ELSE [s |-> "IFNAME=eth0 CTRL-EVENT-CONNECTED Connection to "
                \o ConnectedBssid(scan, nets[sel]["ssid"])
                \o " completed (reauth) [id=" \o StrItoa(sel) \o " id_str=]" \o NulByte,
          err |-> FALSE]

\* getStateChangeString
getStateChangeString(nets, sel, scan) ==
    IF NoSelection(nets, sel) \/ MapGet(NetProps(nets, sel), "ssid") = ""
    THEN [s |-> "", err |-> TRUE]
    ELSE [s |-> "IFNAME=eth0 CTRL-EVENT-STATE-CHANGE SSID=" \o nets[sel]["ssid"]
                \o " BSSID=" \o ConnectedBssid(scan, nets[sel]["ssid"])
                \o " id=" \o StrItoa(sel) \o " state=3" \o NulByte,
          err |-> FALSE]

OK_MESSAGES ==
    {"SET device_name", "SET manufacturer", "SET model_name", "SET model_number",
     "SET serial_number", "SET config_methods", "SET device_type", "SCAN_INTERVAL",
     "DRIVER BTCOEXSCAN-STOP", "DRIVER RXFILTER-STOP", "DRIVER RXFILTER-ADD",
     "DRIVER RXFILTER-START", "DRIVER RXFILTER-REMOVE", "DRIVER WLS_BATCHING STOP",
     "DRIVER STOP", "DRIVER SETSUSPENDMODE", "SET ps", "DRIVER SETBAND", "BSS_FLUSH",
     "SAVE_CONFIG", "TERMINATE"}

isOkMessage(cmd) == \E msg \in OK_MESSAGES : HasPrefix(cmd, msg)

\* the events on the monitor stream
EventScanResults == "IFNAME=eth0 CTRL-EVENT-SCAN-RESULTS" \o NulByte

EventDisconnected == "IFNAME=eth0 CTRL-EVENT-DISCONNECTED" \o NulByte

\* DISCONNECT leaving the selection as it was
KeepSelection(sel) == sel

\* the selection after DISCONNECT: "m.selectedNetwork = -1"
Deselect(sel) == -1

(***************************************************************************)
(*    Specification of one supplicant emulator with its guest, the         *)
(*    network-name watcher of the device, and the callers of               *)
(*    SetWifiSSIDs and UpdateScanResults                                   *)
(***************************************************************************)
MaxWifiCmds == 5

\* a command as readCommand returns it, terminator included
Cmd(x) == PREFIX \o x \o NulByte

\* the commands the guest sends
WifiCommands ==
    { Cmd("ADD_NETWORK"),
      Cmd("SET_NETWORK 0 ssid \"B\""),
      Cmd("SET_NETWORK 1 ssid B"),
      Cmd("SET_NETWORK 0 psk secret"),
      Cmd("SET_NETWORK 0 ssid"),
      Cmd("SET_NETWORK 7 ssid B"),
      Cmd("SELECT_NETWORK 0"),
      Cmd("SELECT_NETWORK 1"),
      Cmd("REMOVE_NETWORK 0"),
      Cmd("DISCONNECT"),
      Cmd("STATUS"),
      Cmd("SCAN_INTERVAL 5") }

\* the handler returns to Run having written c on the control stream and m
\* last on the monitor stream
WifiDone(nets, sel, next, c, m) ==
    /\ networks' = nets
    /\ selectedNetwork' = sel
    /\ netId' = next
    /\ cOut' = c
    /\ mOut' = m
    /\ nameOffer' = ""
    /\ wifiPc' = "read"

\* the handler panics
WifiCrash ==
    /\ wifiPc' = "crashed"
    /\ UNCHANGED <<networks, selectedNetwork, netId, cOut, mOut, nameOffer>>

\* the rest of the SELECT_NETWORK and RECONNECT branches: the two events on
\* the monitor stream unless one of the strings cannot be built, then OK
ConnectReply(nets, sel, scan) ==
    LET con == getConnectedString(nets, sel, scan)
        sc == getStateChangeString(nets, sel, scan)
    IN WifiDone(nets, sel, netId, "OK", IF con.err \/ sc.err THEN mOut ELSE con.s \o sc.s)

\* handleCommand, up to the send of selectNetwork on NetworkNameChan
handleCommand(command) ==
    LET cmd == TrimPrefix(command, PREFIX)
    IN IF isOkMessage(cmd)
       THEN WifiDone(networks, selectedNetwork, netId, "OK", mOut)
       ELSE IF HasPrefix(cmd, "SCAN")
       THEN WifiDone(networks, selectedNetwork, netId, "OK", EventScanResults)
       ELSE IF HasPrefix(cmd, "ADD_NETWORK")
       THEN LET r == addNetwork(networks, netId)
            IN WifiDone(r.networks, selectedNetwork, r.next, StrItoa(r.id), mOut)
       ELSE IF HasPrefix(cmd, "REMOVE_NETWORK")
       THEN LET r == removeNetwork(networks, selectedNetwork, cmd)
            IN WifiDone(r.networks, r.selectedNetwork, netId, "OK", mOut)
       ELSE IF HasPrefix(cmd, "DISABLE_NETWORK")
       THEN WifiDone(disableNetwork(networks, cmd), selectedNetwork, netId, "OK", mOut)
       ELSE IF HasPrefix(cmd, "SET_NETWORK")
       THEN LET r == setNetworkProperty(networks, cmd)
            IN IF r.kind = "panic" THEN WifiCrash
               ELSE WifiDone(r.networks, selectedNetwork, netId,
                             IF r.kind = "true" THEN "OK" ELSE "NULL", mOut)
       ELSE IF HasPrefix(cmd, "ENABLE_NETWORK")
       THEN LET r == enableNetwork(networks, cmd)
            IN IF r.kind = "panic" THEN WifiCrash
               ELSE WifiDone(r.networks, selectedNetwork, netId, "OK", mOut)
       ELSE IF HasPrefix(cmd, "SELECT_NETWORK")
       THEN LET match == MatchId(cmd, "SELECT_NETWORK")
            IN IF match = ""
               THEN ConnectReply(networks, selectedNetwork, scanResults)
               ELSE /\ selectedNetwork' = StrAtoi(match)
                    /\ nameOffer' = MapGet(NetProps(networks, StrAtoi(match)), "ssid")
                    /\ wifiPc' = "publish"
                    /\ UNCHANGED <<networks, netId, cOut, mOut>>
       ELSE IF HasPrefix(cmd, "RECONNECT")
       THEN IF NoSelection(networks, selectedNetwork)
            THEN WifiDone(networks, selectedNetwork, netId, "NULL", mOut)
            ELSE ConnectReply(networks, selectedNetwork, scanResults)
       ELSE IF HasPrefix(cmd, "DISCONNECT")
       THEN WifiDone(networks, Deselect(selectedNetwork), netId, "OK", EventDisconnected)
       ELSE IF HasPrefix(cmd, "STATUS")
       THEN LET r == getStatus(networks, selectedNetwork, scanResults)
            IN WifiDone(networks, selectedNetwork, netId, IF r.err THEN "FAIL" ELSE r.s, mOut)
       ELSE FALSE

\* Run reads a command and handles it
WifiRead ==
    /\ wifiPc = "read"
    /\ wifiCmds < MaxWifiCmds
    /\ wifiCmds' = wifiCmds + 1
    /\ \E command \in WifiCommands :
          /\ wifiCmd' = command
          /\ addedIds' = IF HasPrefix(TrimPrefix(command, PREFIX), "ADD_NETWORK")
                         THEN Append(addedIds, addNetwork(networks, netId).id)
                         ELSE addedIds
          /\ handleCommand(command)
    /\ UNCHANGED <<outsideWifi, watchVars, scanVars, apVars>>

\* "m.NetworkNameChan <- m.networks[id]["ssid"]" meets the watcher's receive;
\* the handler goes on with the events and the reply
WifiPublish ==
    /\ wifiPc = "publish"
    /\ watcherPc = "recv"
    /\ watcherNet' = nameOffer
    /\ watcherPc' = "lookup"
    /\ ConnectReply(networks, selectedNetwork, scanResults)
    /\ UNCHANGED <<outsideWifi, wifiCmds, wifiCmd, addedIds, accessPoints, wifiSpec, connects,
                   scanVars, apVars>>

\* the watcher: "if net, ok := vm.accessPoints[network]; ok {
\* vm.NetworkConnect(0, net.bridge, net.vlan) }"
WatcherLookup ==
    /\ watcherPc = "lookup"
    /\ connects' = IF watcherNet \in DOMAIN accessPoints
                   THEN Append(connects, [iface |-> 0,
                                          bridge |-> accessPoints[watcherNet].bridge,
                                          vlan |-> accessPoints[watcherNet].vlan])
                   ELSE connects
    /\ watcherPc' = "recv"
    /\ UNCHANGED <<outsideWifi, supVars, watcherNet, accessPoints, wifiSpec, scanVars, apVars>>

\* the arguments of the "wifi" command: A on vlan 100 and B on vlan 200, both
\* on bridge b
WifiSpecs ==
    { << [ssid |-> "A", vlan |-> 100, bridge |-> "b"],
         [ssid |-> "B", vlan |-> 200, bridge |-> "b"] >> }

\* SetWifiSSIDs: its body is commented out, the call changes nothing of the
\* device
SetWifiSSIDs ==
    /\ wifiSpec = <<>>
    /\ wifiSpec' \in WifiSpecs
    /\ UNCHANGED <<outsideWifi, supVars, watcherPc, watcherNet, accessPoints, connects, scanVars,
                   apVars>>

\* UpdateScanResults(ssids...): "m.scanResults = nil"
UpdateScanStart(ssids) ==
    /\ scanPc = "idle"
    /\ scanResults' = <<>>
    /\ scanTodo' = ssids
    /\ scanDone' = 0
    /\ scanPc' = IF ssids = <<>> THEN "idle" ELSE "append"

\* UpdateScanResults: one turn of its loop
UpdateScanAppend ==
    /\ scanPc = "append"
    /\ scanResults' = Append(scanResults, NewScanResult(scanDone + 1, Head(scanTodo)))
    /\ scanDone' = scanDone + 1
    /\ scanTodo' = Tail(scanTodo)
    /\ scanPc' = IF Len(scanTodo) = 1 THEN "idle" ELSE "append"
    /\ UNCHANGED <<outsideWifi, supVars, watchVars, apVars>>

\* the lists of visible SSIDs handed to UpdateScanResults
ScanLists == {<<>>, <<"A">>, <<"A", "B">>}

UpdateScanResults ==
    /\ \E ssids \in ScanLists : UpdateScanStart(ssids)
    /\ UNCHANGED <<outsideWifi, supVars, watchVars, apVars>>

WifiInit ==
    /\ networks = <<>>
    /\ selectedNetwork = -1
    /\ scanResults = <<>>
    /\ netId = 0
    /\ wifiPc = "read"
    /\ wifiCmds = 0
    /\ wifiCmd = ""
    /\ addedIds = <<>>
    /\ cOut = ""
    /\ mOut = ""
    /\ nameOffer = ""
    /\ watcherPc = "recv"
    /\ watcherNet = ""
    /\ accessPoints = <<>>
    /\ wifiSpec = <<>>
    /\ connects = <<>>
    /\ scanPc = "idle"
    /\ scanTodo = <<>>
    /\ scanDone = 0
    /\ wifiAPs = <<>>
    /\ vmState = "RUNNING"
    /\ vmLoc = 0
    /\ points = <<>>
    /\ PduIdle
    /\ NumIdle
    /\ ModemIdle
    /\ NodeIdle

WifiNext ==
    \/ WifiRead \/ WifiPublish \/ WatcherLookup
    \/ SetWifiSSIDs \/ UpdateScanResults \/ UpdateScanAppend

SpecWifi == WifiInit /\ [][WifiNext]_vars

(***************************************************************************)
(*    Access points and their visibility (mobile.go, location.go,          *)
(*    updateAccessPointsVisible)                                           *)
(***************************************************************************)
\* the locations of the model: points of one meridian, named by their
\* distance in metres from the zero location
Locs == {0, 10, 10000}

\* locationDistance, in centimetres; a distance of 0 is replaced by 0.01 m in
\* signalStrength
DistanceCm(p1, p2) ==
    LET d == IF p1 >= p2 THEN p1 - p2 ELSE p2 - p1
    IN IF d = 0 THEN 1 ELSE 100 * d

\* 20*math.Log10(d) for d in metres, in thousandths of a dB, for the
\* distances between the locations of the model
TwentyLog10(cm) ==
    CASE cm = 1 -> -40000
      [] cm = 1000 -> 20000
      [] cm = 999000 -> 79991
      [] cm = 1000000 -> 80000

\* 20*math.Log10(2400) - 27.55, in thousandths of a dB
FsplConst == 40054

\* signalStrength, in thousandths of a dBm
signalStrength(ap, loc) == 1000 * ap.power - (TwentyLog10(DistanceCm(loc, ap.loc)) + FsplConst)

\* "int(0.5 + (10 * math.Log10(eirp)))" for the powers of the model
DbmOf(mW) == CASE mW = 200 -> 23 [] mW = 100 -> 20 [] mW = 1 -> 0

\* the arguments of "mobile ap create": milliwatts is -1 when no position and
\* power are given
ApArgs ==
    { [ssid |-> "A", vlan |-> 100, bridge |-> "b", loc |-> 0, milliwatts |-> 200],
      [ssid |-> "L", vlan |-> 100, bridge |-> "b", loc |-> 10000, milliwatts |-> 1],
      [ssid |-> "U", vlan |-> 200, bridge |-> "b", loc |-> 0, milliwatts |-> -1] }

\* the accessPoint cliMobileAP builds
NewAccessPoint(a) ==
    IF a.milliwatts = -1
    THEN [ssid |-> a.ssid, vlan |-> a.vlan, bridge |-> a.bridge, loc |-> 0, power |-> 0, mW |-> 0]
    ELSE [ssid |-> a.ssid, vlan |-> a.vlan, bridge |-> a.bridge, loc |-> a.loc,
          power |-> DbmOf(a.milliwatts), mW |-> a.milliwatts]

\* the threshold of visibility, in thousandths of a dBm
VisibleAbove == -70000

\* the power handed over for a universal access point
UniversalPower == -44

\* the APInfo updateAccessPointsVisible appends for an access point
ApPoint(ap, loc) ==
    IF signalStrength(ap, loc) > VisibleAbove THEN {[SSID |-> ap.ssid, Power |-> ap.power]}
    ELSE IF ap.mW = 0 THEN {[SSID |-> ap.ssid, Power |-> UniversalPower]}
    ELSE {}

\* the points of one pass over wifiAPs
VisiblePoints(aps, loc) == UNION {ApPoint(aps[s], loc) : s \in DOMAIN aps}

\* the orders in which "range wifiAPs" may visit them
Orderings(S) ==
    {q \in [1..Cardinality(S) -> S] : \A i, j \in 1..Cardinality(S) : q[i] = q[j] => i = j}

\* updateAccessPointsVisible for the one device: skipped unless it is
\* RUNNING, else the points collected and handed to UpdateScanResults
updateAccessPointsVisible(aps, loc) ==
    IF vmState # "RUNNING"
    THEN UNCHANGED <<points, scanVars>>
    ELSE \E q \in Orderings(VisiblePoints(aps, loc)) :
            /\ points' = q
            /\ UpdateScanStart([i \in 1..Len(q) |-> q[i].SSID])

\* "mobile ap create"
MobileApCreate ==
    /\ scanPc = "idle"
    /\ \E a \in ApArgs : wifiAPs' = MapSet(wifiAPs, a.ssid, NewAccessPoint(a))
    /\ updateAccessPointsVisible(wifiAPs', vmLoc)
    /\ UNCHANGED <<outsideWifi, supVars, watchVars, vmState, vmLoc>>

\* "mobile ap delete"
MobileApDelete ==
    /\ scanPc = "idle"
    /\ \E ssid \in DOMAIN wifiAPs : wifiAPs' = MapDelete(wifiAPs, ssid)
    /\ updateAccessPointsVisible(wifiAPs', vmLoc)
    /\ UNCHANGED <<outsideWifi, supVars, watchVars, vmState, vmLoc>>

\* PushGPS: the device is given a new location
PushGPS ==
    /\ scanPc = "idle"
    /\ \E loc \in Locs \ {vmLoc} : vmLoc' = loc
    /\ updateAccessPointsVisible(wifiAPs, vmLoc')
    /\ UNCHANGED <<outsideWifi, supVars, watchVars, vmState, wifiAPs>>

\* gpsMove: the recompute of every second, the device not moving
GpsMoveTick ==
    /\ scanPc = "idle"
    /\ updateAccessPointsVisible(wifiAPs, vmLoc)
    /\ UNCHANGED <<outsideWifi, supVars, watchVars, vmState, vmLoc, wifiAPs>>

\* the device is paused, and started again
VmStop ==
    /\ vmState = "RUNNING"
    /\ vmState' = "PAUSED"
    /\ UNCHANGED <<outsideWifi, supVars, watchVars, scanVars, wifiAPs, vmLoc, points>>

VmStart ==
    /\ vmState = "PAUSED"
    /\ vmState' = "RUNNING"
    /\ UNCHANGED <<outsideWifi, supVars, watchVars, scanVars, wifiAPs, vmLoc, points>>

ApNext ==
    \/ MobileApCreate \/ MobileApDelete \/ PushGPS \/ GpsMoveTick
    \/ VmStop \/ VmStart \/ UpdateScanAppend

SpecAp == WifiInit /\ [][ApNext]_vars

(***************************************************************************)
(*              GPS sentences (toNMEAString, part_012:373-439)             *)
(***************************************************************************)
\* the printable ASCII characters in code order: 32 (space) .. 95, and 97 .. 126
AsciiUpper ==
    " !\"#$%&'()*+,-./0123456789:;<=>?@ABCDEFGHIJKLMNOPQRSTUVWXYZ[\\]^_"

AsciiLower == "abcdefghijklmnopqrstuvwxyz{|}~"

\* []byte(s)[i]: the byte of a printable character
AsciiOf(c) ==
    IF StrIndex(AsciiUpper, c) >= 0 THEN 32 + StrIndex(AsciiUpper, c)
    ELSE 97 + StrIndex(AsciiLower, c)

\* a ^ b on bytes
RECURSIVE Xor(_, _)
Xor(a, b) ==
    IF a = 0 THEN b
    ELSE IF b = 0 THEN a
    ELSE 2 * Xor(a \div 2, b \div 2) + ((a + b) % 2)

\* the XOR of the bytes s[lo], ..., s[hi-1]
RECURSIVE XorBytes(_, _, _)
XorBytes(s, lo, hi) ==
    IF lo >= hi THEN 0
    ELSE IF hi = lo + 1 THEN AsciiOf(CharAt(s, lo))
    ELSE LET mid == (lo + hi) \div 2
         IN Xor(XorBytes(s, lo, mid), XorBytes(s, mid, hi))

\* the checksum loop of toNMEAString: "for i, v := range nmeaBytes" skips
\* i == 0 and i == len(nmeaBytes); the second never happens inside the range
NmeaChecksum(s) == XorBytes(s, 1, Len(s))

\* a degree is DegreeUnit units of a coordinate: one unit is 1/10000 minute,
\* so that the four decimals "%.4f" prints of the minutes are exact
DegreeUnit == 600000

Abs(x) == IF x < 0 THEN 0 - x ELSE x

\* |math.Trunc(x)*100 + 60*(x - math.Trunc(x))| in 1/10000: degrees * 100 + minutes
NmeaCoord(x) == (Abs(x) \div DegreeUnit) * 1000000 + (Abs(x) % DegreeUnit)

\* the string s padded with zeros on the left to width w
RECURSIVE PadZeros(_, _)
PadZeros(str, w) == IF Len(str) >= w THEN str ELSE PadZeros("0" \o str, w)

\* "%0<w>.<d>f" of the value v / 10^d, v >= 0
FormatFixed(v, d, w) ==
    PadZeros(StrItoa(v \div (10 ^ d)) \o "." \o PadZeros(StrItoa(v % (10 ^ d)), d), w)

\* toNMEAString(lat, long, accuracy) at the time now ("150405" of time.Now());
\* lat and long in units, accuracy in hundredths
toNMEAString(now, lat, long, accuracy) ==
    LET latCard == IF lat < 0 THEN "S" ELSE "N"
        longCard == IF long < 0 THEN "W" ELSE "E"
        sentence == "$GPGGA," \o now \o "," \o FormatFixed(NmeaCoord(lat), 4, 9) \o ","
                        \o latCard \o "," \o FormatFixed(NmeaCoord(long), 4, 10) \o ","
                        \o longCard \o ",1,05," \o FormatFixed(accuracy, 2, 0)
                        \o ",0.0,M,0.0,M,,,*"
    IN sentence \o Hex2(NmeaChecksum(sentence))

\* the arguments of the calls: times of day, coordinates (37.7577, -33 deg 50',
\* 90, 0; -122.4376, 11.5, 0, -0.0001'), accuracies 1.0 and 1.5
GpsTimes == {"000000", "123519", "235959"}
GpsLats == {0, 22654620, -20300000, 54000000}
GpsLongs == {-73462560, 6900000, 0, -1}
GpsAccuracies == {100, 150}

GpsInit ==
    /\ gpsPc = "args"
    /\ gpsArgs \in [now : GpsTimes, lat : GpsLats, long : GpsLongs, accuracy : GpsAccuracies]
    /\ nmea = ""
    /\ TapIdle
    /\ PostIdle
    /\ RaceIdle
    /\ WanderIdle
    /\ WifiOpen
    /\ PushersIdle
    /\ PduIdle
    /\ NumIdle
    /\ ModemIdle
    /\ WifiIdle

\* nmea := toNMEAString(lat, long, accuracy)
ToNmea ==
    /\ gpsPc = "args"
    /\ nmea' = toNMEAString(gpsArgs.now, gpsArgs.lat, gpsArgs.long, gpsArgs.accuracy)
    /\ gpsPc' = "done"
    /\ UNCHANGED <<outsideNode, tapVars, postVars, raceVars, wanderVars, wifiCloseVars, inboxVars, gpsArgs>>

GpsNext == ToNmea

SpecGps == GpsInit /\ [][GpsNext]_vars

(***************************************************************************)
(*     SMS between devices: the canonical record (Message.Raw,             *)
(*     EatMessage), host taps and "sms deliver-raw" (cliSMS, sms.go)       *)
(***************************************************************************)
\* the fields of Message in declaration order (Time left out)
MessageFields == <<"Src", "Dst", "Message", "RefLen", "RefId", "TotParts", "PartId">>

\* gob sends a field only when it differs from the zero value of its type
GobSent(m) == { i \in 1..Len(MessageFields) : m[MessageFields[i]] # ZeroMessage[MessageFields[i]] }

\* Message.Raw: the gob encoding of the struct, base64 on top: the type
\* descriptor and, in declaration order, the fields that are sent
Raw(m) ==
    [type |-> "Message",
     fields |-> [i \in GobSent(m) |-> m[MessageFields[i]]]]

\* a string that is not the encoding of a Message
Garbage == [type |-> "", fields |-> <<>>]

\* EatMessage: a Message with the fields of the record, the zero value for
\* those it does not carry; the decoder's error for anything else
EatMessage(raw) ==
    IF raw.type # "Message" THEN Err
    ELSE Ok([f \in DOMAIN ZeroMessage |->
               LET at == { i \in DOMAIN raw.fields : MessageFields[i] = f }
               IN IF at = {} THEN ZeroMessage[f] ELSE raw.fields[CHOOSE i \in at : TRUE]])

\* the devices of the node besides the one whose modem is modelled in full,
\* and their numbers
Devs == <<"B", "C">>
PeerNumber == 8675309
OtherNumber == 5550003

\* a device as Launch leaves it; up: the connection to its guest still works
NewPeer(number) == [Number |-> number, Inbox |-> <<>>, out |-> <<>>, up |-> TRUE]

\* Modem.PushSMS on a device whose guest is silent: the packing error, or the
\* Inbox append, the debugging pduSmsUnpack (which may panic), WriteString
\* and the result of Flush
PeerPushSMS(p, msg) ==
    LET r == pduSmsPack(msg)
        stored == [p EXCEPT !.Inbox = Append(p.Inbox, msg)]
    IN IF r.kind # "ok" THEN [kind |-> "err", peer |-> p]
       ELSE IF pduSmsUnpack(r.val).kind = "panic" THEN [kind |-> "panic", peer |-> stored]
       ELSE IF ~p.up THEN [kind |-> "err", peer |-> stored]
       ELSE [kind |-> "ok", peer |-> [stored EXCEPT !.out = Append(p.out, CmtFrame(r.val))]]

\* a delivery loop that pushes to nobody
PushNobody(ps, devs, i, msg) == [kind |-> "ok", peers |-> ps]

\* "for _, vm := range vms.FindAndroidVMs() { if vm.Modem.Number == msg.Dst {
\* if err = vm.Modem.PushSMS(msg); err != nil { return ... } } }" over the
\* devices devs[i..]
RECURSIVE PushLoop(_, _, _, _)
PushLoop(ps, devs, i, msg) ==
    IF i > Len(devs) THEN [kind |-> "ok", peers |-> ps]
    ELSE IF ps[devs[i]].Number # msg.Dst THEN PushLoop(ps, devs, i + 1, msg)
    ELSE LET r == PeerPushSMS(ps[devs[i]], msg)
             ps1 == [ps EXCEPT ![devs[i]] = r.peer]
         IN IF r.kind # "ok" THEN [kind |-> r.kind, peers |-> ps1]
            ELSE PushLoop(ps1, devs, i + 1, msg)

\* the line "sms deliver-raw" prints to a tap: the formatted numbers, then the text
TapLine(msg) ==
    <<StrItoa(msg.Src) \o " -> " \o StrItoa(msg.Dst) \o "\t" \o StrItoa(msg.PartId) \o " of "
        \o StrItoa(msg.TotParts) \o "\t", msg.Message>>

\* a write of one line through a file handle at the handle's offset: the
\* file is filled up with holes when it has been truncated below the offset
Hole == <<"", <<>>>>

WriteAt(file, offset, line) ==
    [i \in 1..(offset + 1) |->
        IF i = offset + 1 THEN line ELSE IF i <= Len(file) THEN file[i] ELSE Hole]

\* "tap.LowRange <= msg.Dst && msg.Dst <= tap.HighRange"
TapWants(tap, dst) == tap.LowRange <= dst /\ dst <= tap.HighRange

\* the tap loop of "sms deliver-raw": one line for every tap whose range
\* holds the destination
TapsAfter(taps, dst) ==
    [path \in DOMAIN taps |->
        IF TapWants(taps[path], dst)
        THEN [taps[path] EXCEPT !.offset = @ + 1] ELSE taps[path]]

FilesAfter(files, taps, msg) ==
    [path \in DOMAIN files |->
        IF path \in DOMAIN taps /\ TapWants(taps[path], msg.Dst)
        THEN WriteAt(files[path], taps[path].offset, TapLine(msg)) ELSE files[path]]

\* the inputs of the command line
MaxNodeCmds == 3
TapPaths == {"/tmp/a", "/tmp/b"}
Wildcard == "all"
TapRanges == {[low |-> 8675000, high |-> 8675999], [low |-> 1, high |-> 100]}

LongText == [i \in 1..(MaxSeptets + 1) |-> 97]

RawMessages ==
    { [ZeroMessage EXCEPT !.Src = 15, !.Dst = PeerNumber, !.Message = <<104, 105>>],
      [ZeroMessage EXCEPT !.Src = 15, !.Dst = 42, !.Message = <<104, 105>>],
      [ZeroMessage EXCEPT !.Src = 15, !.Dst = PeerNumber, !.Message = <<104, 105>>,
                          !.RefLen = 2, !.RefId = <<7, 9>>, !.TotParts = 2, !.PartId = 1],
      [ZeroMessage EXCEPT !.Src = 15, !.Dst = PeerNumber, !.Message = <<104, 105>>,
                          !.RefLen = 3, !.TotParts = 2, !.PartId = 1],
      [ZeroMessage EXCEPT !.Src = 15, !.Dst = 42, !.Message = <<104, 105>>,
                          !.RefLen = 3, !.TotParts = 2, !.PartId = 1],
      [ZeroMessage EXCEPT !.Src = 15, !.Dst = PeerNumber, !.Message = <<104, 105>>,
                          !.RefLen = -1],
      [ZeroMessage EXCEPT !.Src = 15, !.Dst = PeerNumber, !.Message = LongText] }

RawRecords == { Raw(m) : m \in RawMessages } \cup { Garbage }

NodeReady == nodePc = "ready" /\ nodeCmds < MaxNodeCmds

\* "sms tap add <low> <high> <file>": os.Create makes the file or truncates
\* it, before the registry is looked at
TapAdd ==
    /\ NodeReady
    /\ \E path \in TapPaths, range \in TapRanges :
          /\ cliCmd' = <<"tap add", path, range>>
          /\ tapFiles' = MapSet(tapFiles, path, <<>>)
          /\ IF path \in DOMAIN smsHostTaps
             THEN /\ cliErr' = "already a tap using file"
                  /\ UNCHANGED smsHostTaps
             ELSE /\ cliErr' = ""
                  /\ smsHostTaps' = MapSet(smsHostTaps, path,
                                       [LowRange |-> range.low, HighRange |-> range.high,
                                        offset |-> 0])
    /\ nodeCmds' = nodeCmds + 1
    /\ UNCHANGED <<outsideNode, gpsVars, raceVars, wanderVars, wifiCloseVars, inboxVars, postVars, nodePc, peers>>

\* "sms tap delete <file>": the taps at the path (all of them for the
\* wildcard) are closed and forgotten; their files stay
TapDelete ==
    /\ NodeReady
    /\ \E path \in TapPaths \cup {Wildcard} :
          /\ cliCmd' = <<"tap delete", path>>
          /\ smsHostTaps' = [q \in { x \in DOMAIN smsHostTaps : ~(path = Wildcard \/ path = x) }
                                |-> smsHostTaps[q]]
    /\ cliErr' = ""
    /\ nodeCmds' = nodeCmds + 1
    /\ UNCHANGED <<outsideNode, gpsVars, raceVars, wanderVars, wifiCloseVars, inboxVars, postVars, nodePc, tapFiles, peers>>

\* "sms deliver-raw <raw>"
deliverRaw(raw) ==
    LET r == EatMessage(raw)
    IN IF r.kind # "ok"
       THEN /\ cliErr' = "can't convert raw to message"
            /\ UNCHANGED <<nodePc, smsHostTaps, tapFiles, peers>>
       ELSE LET pushed == PushLoop(peers, Devs, 1, r.val)
            IN /\ peers' = pushed.peers
               /\ IF pushed.kind = "panic"
                  THEN /\ nodePc' = "crashed"
                       /\ UNCHANGED <<cliErr, smsHostTaps, tapFiles>>
                  ELSE IF pushed.kind = "err"
                  THEN /\ cliErr' = "error pushing message"
                       /\ UNCHANGED <<nodePc, smsHostTaps, tapFiles>>
                  ELSE /\ cliErr' = ""
                       /\ smsHostTaps' = TapsAfter(smsHostTaps, r.val.Dst)
                       /\ tapFiles' = FilesAfter(tapFiles, smsHostTaps, r.val)
                       /\ UNCHANGED nodePc

DeliverRaw ==
    /\ NodeReady
    /\ \E raw \in RawRecords :
          /\ cliCmd' = <<"deliver-raw", raw>>
          /\ deliverRaw(raw)
    /\ nodeCmds' = nodeCmds + 1
    /\ UNCHANGED <<outsideNode, gpsVars, raceVars, wanderVars, wifiCloseVars, inboxVars, postVars>>

\* the guest of a device goes away: writes on its stream fail from here on
PeerHangup ==
    /\ nodePc = "ready"
    /\ \E d \in DOMAIN peers :
          /\ peers[d].up
          /\ peers' = [peers EXCEPT ![d].up = FALSE]
    /\ UNCHANGED <<outsideNode, gpsVars, raceVars, wanderVars, wifiCloseVars, inboxVars, postVars, nodePc, nodeCmds, cliCmd, cliErr, smsHostTaps, tapFiles>>

TapInit ==
    /\ nodePc = "ready"
    /\ nodeCmds = 0
    /\ cliCmd = <<>>
    /\ cliErr = ""
    /\ smsHostTaps = <<>>
    /\ tapFiles = <<>>
    /\ peers = [d \in {"B", "C"} |-> NewPeer(IF d = "B" THEN PeerNumber ELSE OtherNumber)]
    /\ GpsIdle
    /\ PostIdle
    /\ RaceIdle
    /\ WanderIdle
    /\ WifiOpen
    /\ PushersIdle
    /\ PduIdle
    /\ NumIdle
    /\ ModemIdle
    /\ WifiIdle

TapNext == TapAdd \/ TapDelete \/ DeliverRaw \/ PeerHangup

SpecTap == TapInit /\ [][TapNext]_vars

(***************************************************************************)
(*     The postman of a device (AndroidVM.runPostman) between the modem    *)
(*     and "sms deliver-raw"                                               *)
(***************************************************************************)
\* "for msg := range outbox" ends when the channel is closed
RangeNeverEnds(closed) == FALSE

RangeEnds(closed) == closed

\* the body of the loop for the message received last: msg.Raw(), the command
\* "sms deliver-raw <raw>" and runCommandGlobally, which has every node of the
\* cluster, this one included, handle the command once
PostmanDeliver ==
    /\ Alive
    /\ postPc = "deliver"
    /\ LET raw == Raw(posted[Len(posted)])
       IN /\ cliCmd' = <<"deliver-raw", raw>>
          /\ deliverRaw(raw)
    /\ nodeCmds' = nodeCmds + 1
    /\ postPc' = "recv"
    /\ postDone' = postDone + 1
    /\ UNCHANGED <<outsideNode, gpsVars, raceVars, wanderVars, wifiCloseVars, inboxVars>>

\* the receive of the range loop on the closed channel
PostmanExit ==
    /\ Alive
    /\ postPc = "recv"
    /\ RangeEnds(chanClosed)
    /\ postPc' = "exited"
    /\ UNCHANGED <<outsideNode, gpsVars, raceVars, wanderVars, wifiCloseVars, inboxVars, tapVars, postDone>>

\* the lines and the PDUs of the guest of the sending device: a message for
\* the number of device B and one for a number no device has
MaxPostLines == 2
PostLines == {"AT+CMGS=17\r", "AT+CGSN;+CRSM=1;+CFUN?\r"}
PostPdus ==
    { "0001000781685703f9000011f4f29c9e769f63b219ad66bbe17230" \o CtrlZ,
      "0001000781555000f9000002e834" \o CtrlZ }

RunReadPost == RunReadFrom(PostLines, MaxPostLines)

RunCmgsReadPost == RunCmgsReadFrom(PostPdus)

PostInit ==
    /\ ModemReady
    /\ postPc = "recv"
    /\ postDone = 0
    /\ nodePc = "ready"
    /\ nodeCmds = 0
    /\ cliCmd = <<>>
    /\ cliErr = ""
    /\ smsHostTaps = <<>>
    /\ tapFiles = <<>>
    /\ peers = [d \in {"B", "C"} |-> NewPeer(IF d = "B" THEN PeerNumber ELSE OtherNumber)]
    /\ GpsIdle
    /\ RaceIdle
    /\ WanderIdle
    /\ WifiOpen
    /\ PushersIdle
    /\ PduIdle
    /\ NumIdle
    /\ WifiIdle

\* a device with its guest, its postman and the caller of Close, and the
\* node's handler of "sms deliver-raw"
PostNext ==
    \/ RunStart \/ RunSelectDone \/ RunSelectDefault \/ RunReadPost \/ RunReadErr
    \/ RunSub \/ RunPromptBump \/ RunPromptFlush \/ RunPromptReset
    \/ RunCmgsReadPost \/ RunCmgsSend \/ RunCmgsLoad \/ RunCmgsStore
    \/ RunReply \/ RunReplyBump \/ RunReplyFlush \/ RunReplyReset
    \/ PostmanDeliver \/ PostmanExit
    \/ CloseCall \/ CloseChan \/ CloseConn

SpecPost == PostInit /\ [][PostNext]_vars

\* PostmanDeliver is enabled exactly when the process is alive with the
\* postman at "deliver", and it is the only step that leaves that position
PostmanWaits == Alive /\ postPc = "deliver"

\* the postman and the handler of the command are scheduled, the goroutine
\* is never starved: weak fairness of PostmanExit and of PostmanDeliver, the
\* latter written with its enabling condition
SpecPostFair == SpecPost /\ WF_vars(PostmanExit) /\ []<>(~PostmanWaits)

(***************************************************************************)
(*                         Claims C1 .. C6                                 *)
(***************************************************************************)
\* the pipeline has ended, with a result or a failure
PduEnded == pduPc \in {"done", "packfail", "unpackfail"}

\* the texts of a list of messages concatenated in order
RECURSIVE ConcatMessages(_)
ConcatMessages(ms) ==
    IF Len(ms) = 0 THEN <<>> ELSE ms[1].Message \o ConcatMessages(Tail(ms))

\* ceil(n / d)
CeilDiv(n, d) == (n + d - 1) \div d

\* C1: multi-part round trip.  For every text s with |s| >= 160, packing
\* every segment of NewMessage(src,dst,s), unpacking every PDU and
\* concatenating the unpacked texts in segment order yields exactly s.
C1_MultiPartRoundTrip ==
    (PduEnded /\ Len(text) >= SingleLimit)
        => (pduPc = "done" /\ ConcatTexts(unpacked) = text)

\* C2: single-part round trip.  For every s of characters 0..127 with
\* |s| < 160, NewMessage returns one message m and
\* pduSmsUnpack(pduSmsPack(m)).Message = s.
C2_SinglePartRoundTrip ==
    (PduEnded /\ Len(text) < SingleLimit)
        => (pduPc = "done" /\ Len(msgs) = 1 /\ unpacked[1].val.Message = text)

\* C3 as stated: the message unpacked from the packed single-part message has
\* its destination field equal to dst.
C3_DestinationCarried ==
    (pduPc = "done" /\ Len(text) < SingleLimit) => unpacked[1].val.Dst = dstNum

\* C3 as amended: every message pduSmsUnpack returns for the packed
\* single-part message has its source field equal to src and its destination
\* field 0: the SMS-DELIVER PDU that pduSmsPack writes carries the sender only.
C3_SourceCarried ==
    \A i \in 1..Len(unpacked) :
        (Len(text) < SingleLimit /\ unpacked[i].kind = "ok")
            => (unpacked[i].val.Src = srcNum /\ unpacked[i].val.Dst = 0)

C3_Witness ==
    /\ pduPc = "done"
    /\ Len(text) = 20
    /\ srcNum = TestSrc
    /\ unpacked[1].kind = "ok"
    /\ unpacked[1].val.Message = text

\* C4: NewMessage returns ceil(|s|/152) segments for |s| >= 160, all with the
\* same RefId, RefLen = 2, TotParts = ceil(|s|/152), PartId = 1,2,.. in list
\* order, each text at most 152 characters, the texts concatenated equal to
\* s; for |s| < 160 it returns exactly one message with RefLen = 0.
C4_Segmentation ==
    pduPc \notin {"idle", "new"} =>
        IF Len(text) >= SingleLimit
        THEN /\ Len(msgs) = CeilDiv(Len(text), 152)
             /\ \A i \in 1..Len(msgs) :
                    /\ msgs[i].RefId = msgs[1].RefId
                    /\ msgs[i].RefLen = 2
                    /\ msgs[i].TotParts = CeilDiv(Len(text), 152)
                    /\ msgs[i].PartId = i
                    /\ Len(msgs[i].Message) <= 152
             /\ ConcatMessages(msgs) = text
        ELSE Len(msgs) = 1 /\ msgs[1].RefLen = 0

C4_Witness ==
    /\ pduPc = "pack"
    /\ Len(text) = 2 * SegmentSize
    /\ Len(msgs) = 2
    /\ msgs[2].PartId = 2
    /\ msgs[2].RefId = <<171, 8>>

\* the decimal width of a prefix: the number of its digits, 0 for "no prefix"
DecimalWidth(p) == IF p = -1 THEN 0 ELSE Len(Itoa(p))

\* the first number of the block of a prefix of width w
BlockBase(p, w) == IF w = 0 THEN 0 ELSE p * (10 ^ (10 - w))

\* the number of k-th calls (k = 0,1,..) that a prefix of width w allows
\* covers k (for w = 0 every k the model reaches is below 10^10)
InBlock(k, w) == w = 0 \/ k < 10 ^ (10 - w)

\* C5: with a prefix p of width w < 10 and a fresh counter, the k-th call of
\* Next (k = 0,1,..) returns p*10^(10-w)+k for k < 10^(10-w), and every later
\* call fails with the out-of-numbers error.
C5_BlockAllocation ==
    LET w == DecimalWidth(prefix)
    IN w < 10 =>
        \A k \in 0..(Len(numbers) - 1) :
            numbers[k + 1] = IF InBlock(k, w)
                             THEN Ok(BlockBase(prefix, w) + k)
                             ELSE OutOfNumbers

C5_Witness ==
    /\ prefix = 12345678
    /\ Len(numbers) = 101
    /\ numbers[100] = Ok(1234567899)
    /\ numbers[101] = OutOfNumbers

\* C6 as stated: for a prefix of 10 digits exactly one allocation on a
\* counter succeeds; a second call of Next does not return a number.
C6_ExactlyOnce ==
    DecimalWidth(prefix) = 10
        => Cardinality({k \in 1..Len(numbers) : numbers[k].kind = "ok"}) <= 1

\* C6 as amended: for a prefix of 10 digits every call of Next on a counter
\* succeeds and returns the prefix itself, the second call like the first.
C6_ExactEveryTime ==
    DecimalWidth(prefix) = 10
        => \A k \in 1..Len(numbers) : numbers[k] = Ok(prefix)

C6_Witness ==
    /\ prefix = 1234567890
    /\ Len(numbers) = 2
    /\ numbers[1] = numbers[2]

(***************************************************************************)
(*                         Claims C7 .. C10 (GSM modem)                    *)
(***************************************************************************)
\* the replies of a line's subcommands, concatenated in subcommand order
RECURSIVE ConcatReplies(_)
ConcatReplies(rs) ==
    IF Len(rs) = 0 THEN "" ELSE rs[1].tmp \o ConcatReplies(Tail(rs))

\* some subcommand of the line raised an error
AnyError(rs) == \E i \in 1..Len(rs) : rs[i].waserr

\* C7: whenever Run has handed the reply of a command line to WriteString, one
\* reply was produced per ';'-separated subcommand, the reply is their
\* concatenation in subcommand order followed by the OK frame exactly when no
\* subcommand raised an error, and it ends with the OK frame if and only if
\* none did.
C7_ReplyEndsWithOK ==
    runPc = "replyBump" =>
        /\ Len(runReplies) = Len(StrSplit(runLine, ";"))
        /\ runOut = ConcatReplies(runReplies)
                       \o (IF AnyError(runReplies) THEN "" ELSE msgOK)
        /\ HasSuffix(runOut, msgOK) <=> ~AnyError(runReplies)

\* C7 witness: the reply of a three-subcommand line whose middle subcommand is
\* a CRSM of an unknown file has been written: all three replies, no OK.
C7_Witness ==
    /\ runPc = "replyBump"
    /\ runLine = "AT+CGSN;+CRSM=1;+CFUN?"
    /\ runOut = "\r\n135790248939\r\n\r\n+CME ERROR: BAD COMMAND\r\n\r\n+CFUN: 1\r\n"

\* the characters of s are all hexadecimal digits
IsHex(str) ==
    \A i \in 0..(Len(str) - 1) : \E v \in 0..15 : CharAt(HexDigits, v) = CharAt(str, i)

\* the characters of s are all payload: no CR, no LF, no zero byte
IsPayload(str) ==
    \A i \in 0..(Len(str) - 1) : CharAt(str, i) \notin {"\r", "\n", NulByte}

\* str is a sequence of whole frames: "\r\n> " prompts, "\r\n<payload>\r\n"
\* frames, and "\r\n+CMT: 0\r\n<hex>\r\n" frames
RECURSIVE WholeFrames(_)
WholeFrames(str) ==
    IF Len(str) = 0 THEN TRUE
    ELSE IF StrTake(str, 4) = "\r\n> " THEN WholeFrames(StrDrop(str, 4))
    ELSE IF StrTake(str, 2) # "\r\n" THEN FALSE
    ELSE LET rest == StrDrop(str, 2)
             e == StrIndex(rest, "\r\n")
         IN IF e <= 0 \/ ~IsPayload(StrTake(rest, e)) THEN FALSE
            ELSE IF StrTake(rest, e) # "+CMT: 0" THEN WholeFrames(StrDrop(rest, e + 2))
            ELSE LET pdu == StrDrop(rest, e + 2)
                     h == StrIndex(pdu, "\r\n")
                 IN /\ h > 0
                    /\ IsHex(StrTake(pdu, h))
                    /\ WholeFrames(StrDrop(pdu, h + 2))

\* C8: under every interleaving of Run, the two event goroutines and PushSMS,
\* what reaches the guest in one write is a sequence of whole frames: no frame
\* is cut short, overwritten in part, or followed by bytes of another frame or
\* by stale buffer bytes.
C8_WritesSerialized == WholeFrames(guest)

\* C9: once Close has returned, neither event goroutine writes its event again.
C9_NoEventAfterClose ==
    [][closePc = "closed" =>
          \A t \in Tickers : ~(tickPc[t] = "check2" /\ tickPc'[t] = "bump")]_vars

\* C10 as stated: every tick on which the reporting mode is enabled emits the
\* event, so a goroutine waiting for its tick while the mode is enabled is one
\* whose tick will pass the "changed" test.
C10_EmitsOnEveryTick ==
    \A t \in Tickers :
        (tickPc[t] = "tick" /\ Mode(t) = EnabledMode(t))
            => TickerDiffers(tickLocal[t], Mode(t))

\* C10 amended: a tick goes on to the write only when the mode read differs
\* from the mode the goroutine recorded after its previous event (0 at first),
\* the event is written only when the mode then reads as enabled (CREG 2,
\* CGREG 1), and after the write the goroutine records the mode it reads; so
\* the event is issued once per observed change to the enabled mode, not on
\* every tick.
C10_EmitsOnChangeOnly ==
    [][\A t \in Tickers :
          /\ (tickPc[t] = "tick" /\ tickPc'[t] = "check2") => tickLocal[t] # Mode(t)
          /\ (tickPc[t] = "check2" /\ tickPc'[t] = "bump") => Mode(t) = EnabledMode(t)
          /\ (tickPc[t] = "bump" /\ tickPc'[t] = "tick") => tickLocal'[t] = Mode(t)]_vars

\* C10 witness: both goroutines have written their event once and recorded the
\* enabled mode; both now wait for a tick, the modes still enabled, and their
\* next ticks write nothing.
C10_Witness ==
    /\ tickPc = [t \in Tickers |-> "tick"]
    /\ \A t \in Tickers : tickLocal[t] = EnabledMode(t) /\ Mode(t) = EnabledMode(t)
    /\ ~(\E t \in Tickers : TickerDiffers(tickLocal[t], Mode(t)))

(***************************************************************************)
(*                         Claims C11 .. C14 (SMS through the modem)       *)
(***************************************************************************)
\* Run is between two command lines and no ClearHistory is under way
Quiescent == runPc \in {"select", "read"} /\ clearPc = "idle"

\* the messages posted on MessageChan since ClearHistory last emptied Outbox
PostedSinceClear == SubSeq(posted, clearedAt + 1, Len(posted))

\* C11: every message posted on MessageChan has Src equal to the modem's
\* Number, and whenever Run is between two command lines (and no ClearHistory
\* is under way) the Outbox is exactly the sequence of messages posted since
\* the last ClearHistory, in order.
C11_OutboxIsPosted ==
    /\ \A i \in 1..Len(posted) : posted[i].Src = Number
    /\ Quiescent => Outbox = PostedSinceClear

\* the reply to a CMGS command that carries message reference k
CmgsReply(k) == "\r\n+CMGS: " \o StrItoa(k) \o "\r\n"

\* C12: mr starts at 0 and, outside the moment between the post of a message
\* and the end of its CMGS command, equals the number of CMGS commands
\* completed modulo 256; the step that completes the n-th CMGS command replies
\* "+CMGS: (n-1) mod 256" and leaves mr = n mod 256; and no other step changes
\* mr.
C12_MrCyclic ==
    /\ [](runPc \notin {"cmgsLoad", "cmgsStore"} => status.mr = Len(posted) % 256)
    /\ [][/\ (runPc = "cmgsStore" /\ runPc' # "cmgsStore") =>
                /\ runReplies'[Len(runReplies')].tmp = CmgsReply((Len(posted) - 1) % 256)
                /\ status'.mr = Len(posted) % 256
          /\ status'.mr # status.mr => runPc = "cmgsStore"]_vars

\* C12 witness: the 257th CMGS command has completed with the reply
\* "+CMGS: 0", the reference having wrapped from 255, and mr is 1.
C12_Witness ==
    /\ Len(posted) = 257
    /\ runPc \in {"sub", "reply"}
    /\ Len(runReplies) > 0
    /\ runReplies[Len(runReplies)].tmp = CmgsReply(0)
    /\ status.mr = 1

\* a step that is a call of PushSMS: the caller was idle and the step is its
PushCalled == pushPc = "idle" /\ <<pushPc, pushes, Inbox>>' # <<pushPc, pushes, Inbox>>

\* C13: a call of PushSMS either fails on packing, leaving the Inbox as it was
\* and handing nothing to the writer, or appends its message to the end of the
\* Inbox and hands the writer exactly the one "+CMT: 0" frame of the message's
\* packed PDU.
C13_PushOutcome ==
    [][PushCalled =>
          \/ /\ pushPc' = "idle"
             /\ UNCHANGED <<Inbox, wbuf, wn, guest>>
          \/ \E msg \in PushMsgs :
                /\ pduSmsPack(msg).kind = "ok"
                /\ Inbox' = Append(Inbox, msg)
                /\ pushPc' = "bump"
                /\ pushFrame' = CmtFrame(pduSmsPack(msg).val)
                /\ wbuf' = BufCopy(wbuf, wn, pushFrame')]_vars

\* the number of PushSMS calls the loop of cliSMS has made
CliPushed == Len(cliMsgs) - Len(pushList)

\* Run has not yet read a line, so it has written nothing
RunSilent == linesRead = 0 /\ runPc \in {"none", "select", "read"}

Contains(s, sub) == StrIndex(s, sub) >= 0

\* the step is Run reading and handling the command x
Handles(x) == wifiPc = "read" /\ wifiCmds' = wifiCmds + 1 /\ wifiCmd' = Cmd(x)

\* s without the double quotes that surround it
RECURSIVE Unquoted(_)
Unquoted(s) ==
    IF Len(s) >= 1 /\ SubSeq(s, 1, 1) = "\"" THEN Unquoted(SubSeq(s, 2, Len(s)))
    ELSE IF Len(s) >= 1 /\ SubSeq(s, Len(s), Len(s)) = "\"" THEN Unquoted(SubSeq(s, 1, Len(s) - 1))
    ELSE s

\* the ssid property of the selected network, "" when no network is selected
\* or the property is not set
SelectedSsid ==
    IF selectedNetwork \in DOMAIN networks /\ "ssid" \in DOMAIN networks[selectedNetwork]
    THEN networks[selectedNetwork]["ssid"]
    ELSE ""

\* C15: when STATUS is handled with a network selected whose ssid is set, the
\* reply contains "wpa_state=COMPLETED" exactly if some entry of the scan
\* results at that moment has the selected network's ssid, the double quotes
\* around the latter ignored.
C15_CompletedIffScanned ==
    [][Handles("STATUS") /\ SelectedSsid # "" =>
          (Contains(cOut', "wpa_state=COMPLETED")
             <=> \E i \in 1..Len(scanResults) :
                    scanResults[i].ssid = Unquoted(SelectedSsid))]_vars

\* STATUS has answered COMPLETED for a network whose ssid is stored in quotes
C15_Witness ==
    /\ wifiCmd = Cmd("STATUS")
    /\ wifiPc = "read"
    /\ SelectedSsid = "\"B\""
    /\ Contains(cOut, "ssid=\"B\"\nid=0\nmode=station\nwpa_state=COMPLETED")

\* the command is a SELECT_NETWORK
IsSelect(command) == \E id \in {"0", "1"} : command = Cmd("SELECT_NETWORK " \o id)

\* C16: DISCONNECT sets selectedNetwork to -1, writes CTRL-EVENT-DISCONNECTED
\* on the monitor stream, answers OK and leaves the network table as it was;
\* the selection leaves -1 only by a SELECT_NETWORK command, and every STATUS
\* handled while it is -1 is answered with the fixed DISCONNECTED block.
C16_DisconnectRestores ==
    /\ [][Handles("DISCONNECT") =>
             /\ selectedNetwork' = -1
             /\ mOut' = "IFNAME=eth0 CTRL-EVENT-DISCONNECTED" \o NulByte
             /\ cOut' = "OK"
             /\ networks' = networks]_vars
    /\ [][selectedNetwork = -1 /\ selectedNetwork' # -1 =>
             wifiPc = "read" /\ IsSelect(wifiCmd')]_vars
    /\ [][Handles("STATUS") /\ selectedNetwork = -1 =>
             cOut' = "wpa_state=DISCONNECTED\naddress=00:00:00:00:00:00\n"
                     \o "uuid=00000000-0000-0000-0000-000000000000\n"]_vars

\* a network with an ssid was selected and published, DISCONNECT followed, and
\* STATUS has answered with the DISCONNECTED block
C16_Witness ==
    /\ wifiCmd = Cmd("STATUS")
    /\ wifiPc = "read"
    /\ watcherNet = "\"B\""
    /\ 0 \in DOMAIN networks
    /\ MapGet(networks[0], "ssid") = "\"B\""
    /\ selectedNetwork = -1
    /\ mOut = EventDisconnected
    /\ cOut = StatusDisconnected

\* C17: when the watcher has received the ssid of a selected network, it
\* makes exactly one call NetworkConnect(0, bridge, vlan) if the "wifi"
\* command gave the device an entry for that ssid, and no call otherwise.
C17_ConnectOnSelect ==
    [][watcherPc = "lookup" /\ watcherPc' = "recv" =>
          connects' = IF \E k \in 1..Len(wifiSpec) : wifiSpec[k].ssid = watcherNet
                      THEN LET k == CHOOSE k \in 1..Len(wifiSpec) : wifiSpec[k].ssid = watcherNet
                           IN Append(connects, [iface |-> 0, bridge |-> wifiSpec[k].bridge,
                                                vlan |-> wifiSpec[k].vlan])
                      ELSE connects]_vars

\* the SET_NETWORK commands of the guest, with the id, key and value they name
SetCases ==
    { [cmd |-> "SET_NETWORK 0 ssid \"B\"", id |-> 0, key |-> "ssid", value |-> "\"B\""],
      [cmd |-> "SET_NETWORK 1 ssid B", id |-> 1, key |-> "ssid", value |-> "B"],
      [cmd |-> "SET_NETWORK 0 psk secret", id |-> 0, key |-> "psk", value |-> "secret"],
      [cmd |-> "SET_NETWORK 7 ssid B", id |-> 7, key |-> "ssid", value |-> "B"] }

\* the step handles the SET_NETWORK command c with success
SetSucceeds(c) == Handles(c.cmd) /\ wifiPc' # "crashed" /\ cOut' = "OK"

\* the table with value stored under key of network id
Stored(nets, id, key, value) ==
    [n \in DOMAIN nets |->
        IF n = id THEN [k \in (DOMAIN nets[n]) \cup {key} |-> IF k = key THEN value ELSE nets[n][k]]
        ELSE nets[n]]

\* C18 as stated: a successful SET_NETWORK of ssid stores the value and starts
\* sending it on NetworkNameChan; with another key it stores the value and
\* sends nothing.
C18_SetSsidPublishes ==
    [][\A c \in SetCases :
          SetSucceeds(c) =>
             /\ networks' = Stored(networks, c.id, c.key, c.value)
             /\ IF c.key = "ssid"
                THEN wifiPc' = "publish" /\ nameOffer' = c.value
                ELSE wifiPc' = "read"]_vars

\* C18, amended: a successful SET_NETWORK stores the value under its key,
\* "ssid" or any other, and sends nothing on NetworkNameChan; a send on
\* NetworkNameChan is started only by a SELECT_NETWORK command.
C18_SetStoresOnly ==
    /\ [][\A c \in SetCases :
             SetSucceeds(c) =>
                /\ c.id \in DOMAIN networks
                /\ networks' = Stored(networks, c.id, c.key, c.value)
                /\ wifiPc' = "read"
                /\ nameOffer' = ""
                /\ UNCHANGED <<watcherPc, watcherNet, connects>>]_vars
    /\ [][wifiPc # "publish" /\ wifiPc' = "publish" => IsSelect(wifiCmd')]_vars

\* both an ssid and another key have been stored by SET_NETWORK, the last
\* command, and nothing has been published
C18_Witness ==
    /\ wifiCmd = Cmd("SET_NETWORK 0 psk secret")
    /\ wifiPc = "read"
    /\ cOut = "OK"
    /\ MapGet(networks[0], "psk") = "secret"
    /\ MapGet(networks[0], "ssid") = "\"B\""
    /\ watcherNet = ""

\* C19: the ids returned by ADD_NETWORK are 0, 1, 2, ... in this order, so
\* none is returned twice, whatever was removed in between; the reply is the
\* id in decimal, and the new network holds exactly the default properties.
C19_IdsMonotonic ==
    /\ [](\A n \in 1..Len(addedIds) : addedIds[n] = n - 1)
    /\ [][Handles("ADD_NETWORK") =>
             /\ Len(addedIds') = Len(addedIds) + 1
             /\ cOut' = StrItoa(Len(addedIds))
             /\ Len(addedIds) \notin DOMAIN networks
             /\ DOMAIN networks' = (DOMAIN networks) \cup {Len(addedIds)}
             /\ networks'[Len(addedIds)] = DefaultProps
             /\ \A id \in DOMAIN networks : networks'[id] = networks[id]]_vars

\* network 0 was added and removed, and the next ADD_NETWORK returned 1
C19_Witness ==
    /\ wifiCmd = Cmd("ADD_NETWORK")
    /\ addedIds = <<0, 1>>
    /\ cOut = "1"
    /\ DOMAIN networks = {1}

(***************************************************************************)
(*                              Claim C20                                  *)
(***************************************************************************)
\* the step ends a recompute for the RUNNING device: UpdateScanResults
\* returns
RecomputeEnds ==
    /\ vmState = "RUNNING"
    /\ scanPc' = "idle"
    /\ scanPc = "append" \/ points' # points \/ wifiAPs' # wifiAPs \/ vmLoc' # vmLoc

\* the level, in dBm, is the signal, in thousandths of a dBm, to within 1 dB
LevelIs(level, signal) == 1000 * level - signal < 1000 /\ signal - 1000 * level < 1000

\* the entry list has exactly one entry per access point the rules include,
\* at the level the rules give
ListedByRules(list, aps, loc) ==
    /\ \A i, j \in 1..Len(list) : list[i].ssid = list[j].ssid => i = j
    /\ \A i \in 1..Len(list) :
          /\ list[i].ssid \in DOMAIN aps
          /\ LET ap == aps[list[i].ssid]
             IN IF signalStrength(ap, loc) > -70000
                THEN LevelIs(list[i].level, signalStrength(ap, loc))
                ELSE ap.mW = 0 /\ list[i].level = -44
    /\ \A s \in DOMAIN aps :
          (signalStrength(aps[s], loc) > -70000 \/ aps[s].mW = 0)
             => \E i \in 1..Len(list) : list[i].ssid = s

\* C20: when a recompute ends for the RUNNING device, its scan results hold
\* exactly the access points whose signal at the device's location is above
\* -70 dBm, at that signal level, and the universal access points not so
\* included, at -44 dBm.
C20_VisibleAtSignal ==
    [][RecomputeEnds => ListedByRules(scanResults', wifiAPs', vmLoc')]_vars


(***************************************************************************)
(*   The goroutines at the access points: the command line (cliMobileAP,   *)
(*   cliGPS) and gpsMove. No lock is taken on wifiAPs or on the device's   *)
(*   scan results, so the statements of the two interleave freely.         *)
(***************************************************************************)
\* the goroutine is inside the map assignment or the delete
AtRegistryWrite(t) == thrPc[t] = "write"

\* the goroutine is inside "for _, ap := range wifiAPs"
AtRegistryRead(t) == thrPc[t] = "range"

\* the goroutine is inside UpdateScanResults of the device
AtScanUpdate(t) == thrPc[t] \in {"clear", "load", "store"}

\* what is left alone by a step of these goroutines that keeps to its locals
raceRest == <<pduVars, numVars, modemVars, supVars, watchVars, scanPc, scanTodo, scanDone,
              vmState, points, gpsVars, tapVars, postVars, wanderVars, wifiCloseVars, inboxVars>>

\* the recomputes of one run: each command line and each tick calls one
MaxPasses == 3

\* the access points these command lines create
RaceApArgs == {a \in ApArgs : a.ssid \in {"A", "U"}}

\* the command line: "wifiAPs[ap.ssid] = ap" or "delete(wifiAPs, ssid)" begins
ApWriteBegin ==
    /\ ~mapFault
    /\ passes < MaxPasses
    /\ passes' = passes + 1
    /\ thrPc["cli"] = "idle"
    /\ \/ \E a \in RaceApArgs : regNext' = MapSet(wifiAPs, a.ssid, NewAccessPoint(a))
       \/ \E ssid \in DOMAIN wifiAPs : regNext' = MapDelete(wifiAPs, ssid)
    /\ thrPc' = [thrPc EXCEPT !["cli"] = "write"]
    /\ UNCHANGED <<raceRest, wifiAPs, vmLoc, scanResults, thrPoints, thrId, thrSlice, mapFault>>

\* the write is done; updateAccessPointsVisible is called next
ApWriteEnd ==
    /\ ~mapFault
    /\ thrPc["cli"] = "write"
    /\ wifiAPs' = regNext
    /\ thrPc' = [thrPc EXCEPT !["cli"] = "call"]
    /\ UNCHANGED <<raceRest, passes, vmLoc, scanResults, thrPoints, thrId, thrSlice, regNext, mapFault>>

\* the command line: "gps push" stores the location and calls
\* updateAccessPointsVisible
CliPushGPS ==
    /\ ~mapFault
    /\ passes < MaxPasses
    /\ passes' = passes + 1
    /\ thrPc["cli"] = "idle"
    /\ \E loc \in Locs \ {vmLoc} : vmLoc' = loc
    /\ thrPc' = [thrPc EXCEPT !["cli"] = "call"]
    /\ UNCHANGED <<raceRest, wifiAPs, scanResults, thrPoints, thrId, thrSlice, regNext, mapFault>>

\* gpsMove: the pass of this second calls updateAccessPointsVisible
WanderTick ==
    /\ ~mapFault
    /\ passes < MaxPasses
    /\ passes' = passes + 1
    /\ thrPc["wander"] = "idle"
    /\ thrPc' = [thrPc EXCEPT !["wander"] = "call"]
    /\ UNCHANGED <<raceRest, wifiAPs, vmLoc, scanResults, thrPoints, thrId, thrSlice, regNext, mapFault>>

\* updateAccessPointsVisible: the device is RUNNING, the range over wifiAPs
\* begins
RangeBegin(t) ==
    /\ ~mapFault
    /\ thrPc[t] = "call"
    /\ thrPc' = [thrPc EXCEPT ![t] = IF vmState = "RUNNING" THEN "range" ELSE "idle"]
    /\ UNCHANGED <<raceRest, passes, wifiAPs, vmLoc, scanResults, thrPoints, thrId, thrSlice, regNext, mapFault>>

\* the registries a range that ends now may have iterated: the map as it is,
\* or as the write in progress is making it
RegistriesSeen == {wifiAPs} \cup {regNext : u \in {u \in Threads : AtRegistryWrite(u)}}

\* the range has ended with its points; UpdateScanResults is called
RangeEnd(t) ==
    /\ ~mapFault
    /\ thrPc[t] = "range"
    /\ \E reg \in RegistriesSeen : \E q \in Orderings(VisiblePoints(reg, vmLoc)) :
          thrPoints' = [thrPoints EXCEPT ![t] = [i \in 1..Len(q) |-> q[i].SSID]]
    /\ thrPc' = [thrPc EXCEPT ![t] = "clear"]
    /\ UNCHANGED <<raceRest, passes, wifiAPs, vmLoc, scanResults, thrId, thrSlice, regNext, mapFault>>

\* the runtime finds the map being written while it is iterated and stops
\* the process ("concurrent map iteration and map write")
MapFault ==
    /\ ~mapFault
    /\ \E t, u \in Threads : AtRegistryWrite(t) /\ AtRegistryRead(u)
    /\ mapFault' = TRUE
    /\ UNCHANGED <<raceRest, passes, wifiAPs, vmLoc, scanResults, thrPc, thrPoints, thrId, thrSlice, regNext>>

\* UpdateScanResults: "m.scanResults = nil"
ScanClear(t) ==
    /\ ~mapFault
    /\ thrPc[t] = "clear"
    /\ scanResults' = <<>>
    /\ thrId' = [thrId EXCEPT ![t] = 0]
    /\ thrPc' = [thrPc EXCEPT ![t] = IF thrPoints[t] = <<>> THEN "idle" ELSE "load"]
    /\ UNCHANGED <<raceRest, passes, wifiAPs, vmLoc, thrPoints, thrSlice, regNext, mapFault>>

\* UpdateScanResults: the append reads m.scanResults
ScanLoad(t) ==
    /\ ~mapFault
    /\ thrPc[t] = "load"
    /\ thrSlice' = [thrSlice EXCEPT ![t] = scanResults]
    /\ thrPc' = [thrPc EXCEPT ![t] = "store"]
    /\ UNCHANGED <<raceRest, passes, wifiAPs, vmLoc, scanResults, thrPoints, thrId, regNext, mapFault>>

\* UpdateScanResults: the append stores the longer slice in m.scanResults
ScanStore(t) ==
    /\ ~mapFault
    /\ thrPc[t] = "store"
    /\ scanResults' = Append(thrSlice[t], NewScanResult(thrId[t] + 1, Head(thrPoints[t])))
    /\ thrId' = [thrId EXCEPT ![t] = @ + 1]
    /\ thrPoints' = [thrPoints EXCEPT ![t] = Tail(@)]
    /\ thrSlice' = [thrSlice EXCEPT ![t] = <<>>]
    /\ thrPc' = [thrPc EXCEPT ![t] = IF Len(thrPoints[t]) = 1 THEN "idle" ELSE "load"]
    /\ UNCHANGED <<raceRest, passes, wifiAPs, vmLoc, regNext, mapFault>>

RaceNext ==
    \/ ApWriteBegin \/ ApWriteEnd \/ CliPushGPS \/ WanderTick \/ MapFault
    \/ \E t \in Threads : RangeBegin(t) \/ RangeEnd(t) \/ ScanClear(t) \/ ScanLoad(t) \/ ScanStore(t)

\* one RUNNING device with its Wi-Fi modem, no access point yet
SpecRace == WifiInit /\ [][RaceNext]_vars

(***************************************************************************)
(*   A guest whose CMGS submissions do not all decode (modem.go:210-231)   *)
(***************************************************************************)
\* what the guest types after the prompt: a PDU whose destination digits hold
\* the nibble 0xa, so that strconv.Atoi of the address fails, and a PDU that
\* decodes
FailingPdus ==
    { "00010004812a43000002e834" \o CtrlZ,
      "0001000781685703f9000011f4f29c9e769f63b219ad66bbe17230" \o CtrlZ }

FailingLines == { "AT+CMGS=11\r", "AT+CGSN;+CMGS=11\r" }

MaxFailingLines == 2

RunReadFailing == RunReadFrom(FailingLines, MaxFailingLines)

RunCmgsReadFailing == RunCmgsReadFrom(FailingPdus)

\* what parseAssignment holds in msg after pduSmsUnpack has returned an error:
\* the zero Message with Src set
DecodeFailed == runMsg = [ZeroMessage EXCEPT !.Src = Number]

CmgsNext ==
    \/ RunStart \/ RunSelectDefault \/ RunReadFailing \/ RunReadErr
    \/ RunSub \/ RunPromptBump \/ RunPromptFlush \/ RunPromptReset
    \/ RunCmgsReadFailing \/ RunCmgsSend \/ RunCmgsLoad \/ RunCmgsStore
    \/ RunReply \/ RunReplyBump \/ RunReplyFlush \/ RunReplyReset

SpecCmgs == ModemInit /\ [][CmgsNext]_vars

(***************************************************************************)
(*   GPS wandering (gps_cli.go: cliGPSWander, gpsMove; PushGPS).           *)
(*   Coordinates are in millionths of a degree, within one degree of the   *)
(*   equator and of the zero meridian.                                     *)
(***************************************************************************)
\* "vm.moveSpeed = 0.000007" and "vm.moveSpeed = 0.0001"
Walking == 7
Driving == 100

\* "rand.Float64() * 0.01": the offsets of a new destination lie strictly
\* inside this many millionths of a degree
WanderRadius == 10000

\* closeEnough: locationDistance below one metre.  One millionth of a degree is
\* 0.111195 m on the great circle, so the squared offset is below 80.88
CloseSq == 80

\* (an offset of 9 or more on one axis is already too far; the squares are
\* formed for the smaller offsets only)
closeEnough(p1, p2) ==
    LET dlat  == Abs(p1.lat - p2.lat)
        dlong == Abs(p1.long - p2.long)
    IN /\ dlat < 9
       /\ dlong < 9
       /\ dlat * dlat + dlong * dlong <= CloseSq

\* a step of the full speed whatever the distance left
AxisStepOver(dest, cur, speed) == IF dest < cur THEN -speed ELSE speed

\* gpsMove: the change of one coordinate towards the destination
AxisStep(dest, cur, speed) ==
    LET diff == dest - cur
    IN IF Abs(diff) < speed THEN diff
       ELSE IF dest < cur THEN -speed ELSE speed

\* what a step of the wandering code leaves alone
wanderRest == <<pduVars, numVars, modemVars, gpsVars, tapVars, postVars, raceVars, wifiCloseVars, inboxVars,
                supVars, watchVars>>

\* cliGPSWander: stop, walking, driving
GpsWanderFrom(speeds) ==
    /\ \E speed \in speeds : moveSpeed' = speed
    /\ UNCHANGED <<wanderRest, scanVars, apVars, originLocation, currentLocation,
                   destinationLocation, wanderTicks>>

\* PushGPS with a sentence that parses to loc: current and origin are set,
\* the destination is not touched, the access points are recomputed
WanderPushFrom(locs) ==
    /\ scanPc = "idle"
    /\ \E loc \in locs :
          /\ currentLocation' = loc
          /\ originLocation' = loc
    /\ updateAccessPointsVisible(wifiAPs, vmLoc)
    /\ UNCHANGED <<wanderRest, wifiAPs, vmState, vmLoc, moveSpeed, destinationLocation, wanderTicks>>

\* one pass of gpsMove over the one device, the offsets of a new destination
\* drawn from deltas
GpsMoveFrom(deltas, max) ==
    /\ scanPc = "idle"
    /\ wanderTicks < max
    /\ wanderTicks' = wanderTicks + 1
    /\ IF vmState # "RUNNING" \/ moveSpeed = 0
       THEN UNCHANGED <<currentLocation, destinationLocation>>
       ELSE /\ IF closeEnough(destinationLocation, currentLocation)
                    \/ (destinationLocation.lat = 0 /\ destinationLocation.long = 0)
               THEN \E dlat, dlong \in deltas :
                       destinationLocation' = [lat |-> originLocation.lat + dlat,
                                               long |-> originLocation.long + dlong]
               ELSE UNCHANGED destinationLocation
            /\ currentLocation' =
                 [lat |-> currentLocation.lat
                            + AxisStep(destinationLocation'.lat, currentLocation.lat, moveSpeed),
                  long |-> currentLocation.long
                            + AxisStep(destinationLocation'.long, currentLocation.long, moveSpeed)]
    /\ updateAccessPointsVisible(wifiAPs, vmLoc)
    /\ UNCHANGED <<wanderRest, wifiAPs, vmState, vmLoc, moveSpeed, originLocation>>

\* a few ticks, with destinations nearer than a step, a few steps away and
\* at the edge of the radius
MaxWanderTicks == 4

WanderDeltas == {-9999, -12, 3, 150}

WanderLocs == {[lat |-> 500000, long |-> -300000]}

GpsWander == GpsWanderFrom({0, Walking, Driving})

WanderPushGPS == WanderPushFrom(WanderLocs)

GpsMove == GpsMoveFrom(WanderDeltas, MaxWanderTicks)

WanderNext == GpsWander \/ WanderPushGPS \/ GpsMove \/ VmStop \/ VmStart

\* one RUNNING device at the zero location, not wandering, no access point
SpecWander == WifiInit /\ [][WanderNext]_vars

\* a device driving for long enough to cover the radius, given one position
\* by hand
MaxDriftTicks == 103

DriftDeltas == {-9000, 9000}

DriftLocs == {[lat |-> 500000, long |-> -300000]}

GpsWanderDriving == GpsWanderFrom({Driving})

DriftPushGPS == WanderPushFrom(DriftLocs)

GpsMoveDrift == GpsMoveFrom(DriftDeltas, MaxDriftTicks)

DriftNext == GpsWanderDriving \/ DriftPushGPS \/ GpsMoveDrift

SpecDrift == WifiInit /\ [][DriftNext]_vars

(***************************************************************************)
(*   The end of the Wi-Fi modem (miniwifi/modem.go:103-131).  Run tests    *)
(*   the kill channel with "select { case <-m.kill: break; default: }":    *)
(*   the break ends the select statement, so with the channel closed or    *)
(*   not Run goes on to readCommand, and WifiRead is Run's step in both    *)
(*   cases.  Only an EOF on the control stream ends the loop.              *)
(***************************************************************************)
\* Modem.Close: "close(m.kill)"
WifiClose ==
    /\ ~wifiKill
    /\ wifiKill' = TRUE
    /\ killAt' = wifiCmds
    /\ UNCHANGED <<outsideNode, gpsVars, tapVars, postVars, raceVars, wanderVars, inboxVars, wifiConns>>

\* readCommand returns io.EOF: Run leaves its loop and closes the two
\* connections
WifiEof ==
    /\ wifiPc = "read"
    /\ wifiPc' = "returned"
    /\ wifiConns' = "closed"
    /\ UNCHANGED <<pduVars, numVars, modemVars, gpsVars, tapVars, postVars, raceVars, wanderVars,
                   inboxVars, wifiKill, killAt, networks, selectedNetwork, netId, wifiCmds, wifiCmd, addedIds,
                   cOut, mOut, nameOffer, watchVars, scanVars, apVars>>

WifiCloseNext == WifiRead \/ WifiPublish \/ WatcherLookup \/ WifiClose \/ WifiEof

\* the Wi-Fi modem with its guest, the watcher of NetworkNameChan and the
\* owner who closes it
SpecWifiClose == WifiInit /\ [][WifiCloseNext]_vars

(***************************************************************************)
(*    Concurrent PushSMS calls and ClearHistory on one modem (modem.go:     *)
(*    PushSMS, ClearHistory; the deliver-raw branch of cliSMS)              *)
(***************************************************************************)
MaxInboxPushes == 3

\* the messages of the n-th call: a short one, which packs, and one too long
\* to pack; the sender tells the calls apart
InboxMsgs(n) ==
    { [ZeroMessage EXCEPT !.Src = 100 + n, !.Dst = ModemNumber, !.Message = <<104, 105>>],
      [ZeroMessage EXCEPT !.Src = 100 + n, !.Dst = ModemNumber,
                          !.Message = [i \in 1..(MaxSeptets + 1) |-> 97]] }

inboxRest == <<pduVars, numVars, wifiVars, gpsVars, tapVars, postVars, raceVars, wanderVars,
               wifiCloseVars, runVars, tickVars, callVars, pushLocals, runOld, clearPc,
               status, Number, posted, chanClosed, connClosed>>

\* PushSMS from its first statement to the read of m.Inbox in
\* "m.Inbox = append(m.Inbox, msg)"; a packing error returns before it
InboxLoad(p) ==
    /\ Alive
    /\ pshPc[p] = "idle"
    /\ pshCalls < MaxInboxPushes
    /\ pshCalls' = pshCalls + 1
    /\ \E msg \in InboxMsgs(pshCalls) :
          IF pduSmsPack(msg).kind # "ok"
          THEN UNCHANGED <<pshPc, pshOld, pshMsg, sinceClear>>
          ELSE /\ pshPc' = [pshPc EXCEPT ![p] = "store"]
               /\ pshOld' = [pshOld EXCEPT ![p] = Inbox]
               /\ pshMsg' = [pshMsg EXCEPT ![p] = msg]
               /\ sinceClear' = sinceClear \cup {msg}
    /\ UNCHANGED <<inboxRest, writerVars, Inbox, Outbox, clears, clearedAt>>

\* the write of m.Inbox, then the frame written and flushed
InboxStore(p) ==
    /\ Alive
    /\ pshPc[p] = "store"
    /\ Inbox' = Append(pshOld[p], pshMsg[p])
    /\ LET frame == CmtFrame(pduSmsPack(pshMsg[p]).val)
       IN /\ wbuf' = BufCopy(wbuf, wn, frame)
          /\ guest' = BufContents(BufCopy(wbuf, wn, frame), wn + Len(frame))
          /\ wn' = 0
    /\ pshPc' = [pshPc EXCEPT ![p] = "idle"]
    /\ UNCHANGED <<inboxRest, werr, Outbox, clears, clearedAt, pshOld, pshMsg, pshCalls,
                   sinceClear>>

\* ClearHistory: "m.Inbox = nil; m.Outbox = nil"
ClearHistory ==
    /\ Alive
    /\ clears < MaxClears
    /\ clears' = clears + 1
    /\ Inbox' = <<>>
    /\ Outbox' = <<>>
    /\ clearedAt' = Len(posted)
    /\ sinceClear' = {}
    /\ UNCHANGED <<inboxRest, writerVars, pshPc, pshOld, pshMsg, pshCalls>>

InboxNext ==
    \/ \E p \in Pushers : InboxLoad(p) \/ InboxStore(p)
    \/ ClearHistory

SpecInbox == ModemInit /\ [][InboxNext]_vars

(***************************************************************************)
(*                         Claims C21 .. C30                               *)
(***************************************************************************)
\* the bytes of a sentence strictly between its '$' and its '*'
Between(s) == SubSeq(s, StrIndex(s, "$") + 2, StrIndex(s, "*"))

\* C21: the two hex digits after '*' are the XOR of exactly the bytes strictly
\* between the '$' and the '*' of the sentence
C21_ChecksumBetween ==
    gpsPc = "done" =>
        /\ StrIndex(nmea, "*") = Len(nmea) - 3
        /\ StrDrop(nmea, Len(nmea) - 2) = Hex2(XorBytes(Between(nmea), 0, Len(Between(nmea))))

\* the step is the handling of an "sms deliver-raw" command
IsDeliverRaw == nodeCmds' = nodeCmds + 1 /\ cliCmd'[1] = "deliver-raw"

\* the lines of a file, holes left out
Lines(file) == SelectSeq(file, LAMBDA l : l # Hole)

\* the file has gained the line at its end and nothing else
GainsLine(old, new, line) ==
    /\ Len(new) > Len(old)
    /\ new[Len(new)] = line
    /\ Lines(new) = Append(Lines(old), line)

\* C22: for every message handled by "sms deliver-raw" that decodes, every
\* tap whose range holds Dst receives exactly one line and every other tap
\* nothing, whatever happens with the delivery to the devices
C22_TapsReceive ==
    [][(IsDeliverRaw /\ EatMessage(cliCmd'[2]).kind = "ok") =>
          LET msg == EatMessage(cliCmd'[2]).val
          IN \A path \in DOMAIN smsHostTaps :
                IF smsHostTaps[path].LowRange <= msg.Dst /\ msg.Dst <= smsHostTaps[path].HighRange
                THEN GainsLine(tapFiles[path], tapFiles'[path], TapLine(msg))
                ELSE tapFiles'[path] = tapFiles[path]]_vars

\* the RefLen a well-formed record carries (0 when the field is not sent)
RawRefLen(raw) == IF 4 \in DOMAIN raw.fields THEN raw.fields[4] ELSE 0

\* C23: "sms deliver-raw" of a record whose RefLen is not 0, 1 or 2 fails
\* with an error and the record reaches no device and no tap
C23_BadRefLenRejected ==
    [][(IsDeliverRaw /\ cliCmd'[2].type = "Message" /\ RawRefLen(cliCmd'[2]) \notin {0, 1, 2}) =>
          /\ EatMessage(cliCmd'[2]).kind = "err"
          /\ cliErr' # ""
          /\ peers' = peers
          /\ tapFiles' = tapFiles
          /\ nodePc' = "ready"]_vars

\* C29: "sms tap add" with the path of an existing tap fails and leaves the
\* registry and the lines already in the tap's file as they are
C29_DuplicateTapRejected ==
    [][(nodeCmds' = nodeCmds + 1 /\ cliCmd'[1] = "tap add" /\ cliCmd'[2] \in DOMAIN smsHostTaps) =>
          /\ cliErr' # ""
          /\ smsHostTaps' = smsHostTaps
          /\ tapFiles'[cliCmd'[2]] = tapFiles[cliCmd'[2]]]_vars

\* the messages of a list that are addressed to device B
ForB(ms) == SelectSeq(ms, LAMBDA m : m.Dst = PeerNumber)

\* what device B holds is what the sender has posted for it so far, each
\* message once and in order, the last one possibly still with the postman:
\* one Inbox entry from the sender's number and one +CMT frame for each
DeliveredSoFar ==
    LET sent == ForB(posted)
        B == peers["B"]
    IN /\ Len(B.Inbox) <= Len(sent)
       /\ Len(sent) <= Len(B.Inbox) + 1
       /\ B.Inbox = SubSeq(sent, 1, Len(B.Inbox))
       /\ \A k \in 1..Len(B.Inbox) : B.Inbox[k].Src = ModemNumber /\ B.Inbox[k].Dst = B.Number
       /\ Len(B.out) = Len(B.Inbox)
       /\ \A k \in 1..Len(B.out) : B.out[k] = CmtFrame(pduSmsPack(B.Inbox[k]).val)
       /\ peers["C"].Inbox = <<>> /\ peers["C"].out = <<>>

C25_CloseEndsPostman ==
    /\ [](closePc = "closed" => (runPc = "returned" /\ chanClosed))
    /\ (closePc = "closed") ~> (postPc = "exited" /\ postDone = Len(posted))
    /\ [](postPc = "exited" => (chanClosed /\ postDone = Len(posted)))

C25_Witness ==
    /\ closePc = "closed"
    /\ postPc = "exited"
    /\ Len(posted) >= 1
    /\ postDone = Len(posted)

\* C26: accesses to the registry of access points are mutually exclusive: no
\* recompute ranges over wifiAPs while "mobile ap create" or "mobile ap
\* delete" is writing it, and no two recomputes are inside UpdateScanResults
\* of the one device at the same time
C26_RegistryExclusive ==
    /\ \A t, u \in Threads : ~(AtRegistryWrite(t) /\ AtRegistryRead(u))
    /\ \A t, u \in Threads : t # u => ~(AtScanUpdate(t) /\ AtScanUpdate(u))

\* C27: no line of the guest is fatal to the GSM modem: whatever lines have
\* been read, the command reader has not crashed
C27_NoFatalLine == linesRead > 0 => runPc # "crashed"

\* C28: when the PDU the guest submitted in a CMGS command has failed to
\* decode, the reply to that command line carries an error and does not end
\* with the OK frame
C28_DecodeFailureReported ==
    (runPc = "replyBump" /\ DecodeFailed) =>
        (runFoundErr /\ ~HasSuffix(runOut, msgOK))

\* the PDU-type octet of a PDU, at the offset pduSmsUnpack reads it from
PduTypeOf(pdu) == ByteAt(pdu, 2 + ByteAt(pdu, 0))

\* bit 6 (0x40, UDHI) of the PDU-type octet
Udhi(pdu) == (PduTypeOf(pdu) \div 64) % 2 = 1

\* the octets pduSmsUnpack hands to PduUserDataDecode as the user data
UserDataOf(pdu) ==
    LET o1 == 2 + ByteAt(pdu, 0)
        PDUType == ByteAt(pdu, o1)
        o2 == o1 + 2 + (IF PDUType % 2 # 0 THEN 2 ELSE 0)
        SenAdrLen == ByteAt(pdu, o2)
        o3 == o2 + 4 + (IF SenAdrLen % 2 = 1 THEN SenAdrLen + 1 ELSE SenAdrLen)
        o4 == o3 + 4 + (IF PDUType % 4 = 0 THEN 14 ELSE 0)
        o5 == o4 + (IF (PDUType \div 16) % 2 # 0 THEN 2 ELSE 0)
    IN hexDecode(Drop(pdu, o5 + 2))

\* C30: pduSmsUnpack takes the user data of a PDU to start with a User Data
\* Header if and only if bit 6 (UDHI) of its PDU-type octet is set, and the
\* user data of a PDU without UDHI is decoded entirely as text: the message
\* comes back as the text that was packed, whatever its first octet
C30_HeaderIffUdhi ==
    \A i \in 1..Len(unpacked) :
        /\ Len(UserDataOf(pdus[i])) > 0 =>
              (HasHeader(UserDataOf(pdus[i])) <=> Udhi(pdus[i]))
        /\ ~Udhi(pdus[i]) =>
              (unpacked[i].kind = "ok" /\ unpacked[i].val.Message = msgs[i].Message)

(***************************************************************************)
(*                          Claims C31 .. C40                              *)
(***************************************************************************)
\* the coordinates of a location
Axes == {"lat", "long"}

Min(a, b) == IF a <= b THEN a ELSE b

C39_NearOrigin ==
    moveSpeed > 0 =>
        \A x \in Axes : Abs(currentLocation[x] - originLocation[x]) <= WanderRadius

\* C32: after Modem.Close of the Wi-Fi modem, Run stops handling commands
\* without waiting for an EOF: at most the command Run was already reading
\* when the kill channel was closed is still handled
C32_CloseStopsRun == wifiKill => wifiCmds <= killAt + 1

\* C33: no supplicant command is fatal to the Wi-Fi modem: whatever commands
\* have been read, network ids absent from the table included, the command
\* reader has not crashed
C33_NoFatalCommand == wifiCmds > 0 => wifiPc # "crashed"

\* C34: selectedNetwork is -1 or the id of a network in the network table
C34_SelectedInTable == selectedNetwork = -1 \/ selectedNetwork \in DOMAIN networks

\* C35: Modem.Close always eventually returns.  A finite run refutes it when
\* Close is left at its send on done with no receiver to come: Run, the only
\* receiver, has already returned because of a read error
C35_CloseReturns == ~(closePc = "sending" /\ runPc = "failed")

\* C36: no message is sent on MessageChan after the channel has been closed:
\* once it is closed Run has returned, and nothing more is posted
C36_NoSendAfterClose ==
    /\ [](chanClosed => runPc = "returned")
    /\ [][chanClosed => posted' = posted]_vars

\* C36 witness: Close was called while the guest was submitting a message;
\* the message was posted, then Run took done and the channel was closed
C36_Witness ==
    /\ chanClosed
    /\ Len(posted) = 1
    /\ runPc = "returned"
    /\ linesRead = 1

\* C37: after the guest enables CREG reporting (mode 2) or CGREG reporting
\* (mode 1), the event reaches the guest even if the guest sends nothing more
\* and no SMS is pushed.  A finite run refutes it when Run waits for the next
\* line, both goroutines wait for a tick that has nothing new to report, and
\* bytes are still held back in the writer: no step of the modem flushes them
C37_EventsFlushed ==
    (/\ runPc = "read"
     /\ \A t \in Tickers : tickPc[t] = "tick" /\ ~TickerDiffers(tickLocal[t], Mode(t)))
        => wn = 0

\* C38: a STATUS reply reflects one complete scan-result list produced by a
\* single UpdateScanResults call: when the command reader answers STATUS for
\* a selected network with an ssid, and so searches scanResults, no update is
\* in progress; it never reads a list that has been emptied and is still
\* being rebuilt
C38_ScanListWhole ==
    [][(/\ wifiCmds' = wifiCmds + 1
        /\ wifiCmd' = Cmd("STATUS")
        /\ ~NoSelection(networks, selectedNetwork)
        /\ MapGet(networks[selectedNetwork], "ssid") # "") => scanPc = "idle"]_vars

\* the number of entries of a list equal to x
Count(list, x) == Cardinality({i \in 1..Len(list) : list[i] = x})

\* C40: whenever no PushSMS call is in progress, every message of a
\* successful PushSMS call begun since the last ClearHistory is in the Inbox
\* exactly once
C40_InboxKeepsPushes ==
    (\A p \in Pushers : pshPc[p] = "idle")
        => \A msg \in sinceClear : Count(Inbox, msg) = 1

====
